---- MODULE Spec2Model ----
(***************************************************************************)
(* Model of the poise accounting core: engine/pnl.py (daily_pnl,           *)
(* total_pnl, trade_pnl, group_trades) and services/account.py             *)
(* (AccountService.get_trade_groups, _activities_as_trades,                *)
(* get_open_positions, get_pnl_summary).                                   *)
(*                                                                         *)
(* Money is decimal.Decimal under Python's default context: every          *)
(* arithmetic result is the exact result rounded half-even to Prec         *)
(* significant digits.  A Decimal is modelled by its numeric value         *)
(* [neg, c, e] = (-1)^neg * c * 10^e, where the coefficient c is a         *)
(* sequence of decimal digits, least significant first, kept in the        *)
(* canonical form without low or high zero digits, so that equality of     *)
(* the records is Python's numeric == on Decimals.                         *)
(***************************************************************************)
EXTENDS Integers, Sequences, FiniteSets, TLC

\* decimal.getcontext().prec of the default context the Decimals are computed in
Prec == 28

\* ------------------------------------------------------------------------
\* Unbounded naturals as digit sequences (least significant digit first, no
\* high zero digit; zero is the empty sequence).  The digit loops are written
\* as recursions over halves of the index range.

RECURSIVE NatOf(_)
NatOf(n) == IF n = 0 THEN << >> ELSE << n % 10 >> \o NatOf(n \div 10)

StripHigh(a) ==
    SubSeq(a, 1, CHOOSE i \in 0..Len(a) :
                     /\ i > 0 => a[i] # 0
                     /\ \A j \in (i + 1)..Len(a) : a[j] = 0)

LowZeros(a) ==
    CHOOSE z \in 0..Len(a) :
        /\ z < Len(a) => a[z + 1] # 0
        /\ \A j \in 1..z : a[j] = 0

Zeros(n) == [i \in 1..n |-> 0]

Dig(a, i) == IF i <= Len(a) THEN a[i] ELSE 0

\* digits lo..hi of a + b + carry, and the carry out
RECURSIVE NatAddC(_, _, _, _, _)
NatAddC(a, b, lo, hi, carry) ==
    IF lo > hi THEN [s |-> << >>, c |-> carry]
    ELSE IF lo = hi
    THEN LET s == Dig(a, lo) + Dig(b, lo) + carry
         IN  [s |-> << s % 10 >>, c |-> s \div 10]
    ELSE LET m == (lo + hi) \div 2
             L == NatAddC(a, b, lo, m, carry)
             H == NatAddC(a, b, m + 1, hi, L.c)
         IN  [s |-> L.s \o H.s, c |-> H.c]

NatAdd(a, b) ==
    LET n == IF Len(a) > Len(b) THEN Len(a) ELSE Len(b)
        r == NatAddC(a, b, 1, n, 0)
    IN  IF r.c = 0 THEN r.s ELSE Append(r.s, r.c)

\* digits lo..hi of a - b - borrow, and the borrow out (a >= b)
RECURSIVE NatSubB(_, _, _, _, _)
NatSubB(a, b, lo, hi, borrow) ==
    IF lo > hi THEN [s |-> << >>, c |-> borrow]
    ELSE IF lo = hi
    THEN LET s == Dig(a, lo) - Dig(b, lo) - borrow
         IN  [s |-> << (s + 10) % 10 >>, c |-> IF s < 0 THEN 1 ELSE 0]
    ELSE LET m == (lo + hi) \div 2
             L == NatSubB(a, b, lo, m, borrow)
             H == NatSubB(a, b, m + 1, hi, L.c)
         IN  [s |-> L.s \o H.s, c |-> H.c]

NatSub(a, b) == StripHigh(NatSubB(a, b, 1, Len(a), 0).s)

\* -1, 0, 1 as a < b, a = b, a > b
NatCmp(a, b) ==
    IF Len(a) < Len(b) THEN -1
    ELSE IF Len(a) > Len(b) THEN 1
    ELSE LET df == {i \in 1..Len(a) : a[i] # b[i]}
         IN  IF df = {} THEN 0
             ELSE LET t == CHOOSE i \in df : \A j \in df : j <= i
                  IN  IF a[t] < b[t] THEN -1 ELSE 1

\* digits lo..hi of a * d + carry for a digit d, and the carry out
RECURSIVE NatMulDigC(_, _, _, _, _)
NatMulDigC(a, d, lo, hi, carry) ==
    IF lo > hi THEN [s |-> << >>, c |-> carry]
    ELSE IF lo = hi
    THEN LET s == a[lo] * d + carry
         IN  [s |-> << s % 10 >>, c |-> s \div 10]
    ELSE LET m == (lo + hi) \div 2
             L == NatMulDigC(a, d, lo, m, carry)
             H == NatMulDigC(a, d, m + 1, hi, L.c)
         IN  [s |-> L.s \o H.s, c |-> H.c]

NatMulDig(a, d) ==
    LET r == NatMulDigC(a, d, 1, Len(a), 0)
    IN  StripHigh(IF r.c = 0 THEN r.s ELSE Append(r.s, r.c))

NatShift(a, n) == IF a = << >> THEN a ELSE Zeros(n) \o a

\* a times the digits lo..hi of b, each at its place
RECURSIVE NatMulAt(_, _, _, _)
NatMulAt(a, b, lo, hi) ==
    IF lo > hi THEN << >>
    ELSE IF lo = hi THEN NatShift(NatMulDig(a, b[lo]), lo - 1)
    ELSE LET m == (lo + hi) \div 2
         IN  NatAdd(NatMulAt(a, b, lo, m), NatMulAt(a, b, m + 1, hi))

NatMul(a, b) == NatMulAt(a, b, 1, Len(b))

\* the quotient digit: how many times d fits into r (r < 10 * d)
FitsTimes(r, d, n) == NatCmp(NatMulDig(d, n), r) <= 0

Taken(r, d, k) == [q |-> << k >>, r |-> NatSub(r, NatMulDig(d, k))]

Fits(r, d) ==
    Taken(r, d, CHOOSE n \in 0..9 :
                    FitsTimes(r, d, n) /\ (n < 9 => ~FitsTimes(r, d, n + 1)))

\* long division by d # 0 over the digits hi..lo of a (downwards), entered
\* with the remainder r of the digits above hi
RECURSIVE NatDivAt(_, _, _, _, _)
NatDivAt(a, d, hi, lo, r) ==
    IF hi < lo THEN [q |-> << >>, r |-> r]
    ELSE IF hi = lo
    THEN Fits(StripHigh(<< a[hi] >> \o r), d)
    ELSE LET m  == (lo + hi) \div 2
             H  == NatDivAt(a, d, hi, m + 1, r)
             hr == H.r
             L  == NatDivAt(a, d, m, lo, hr)
         IN  IF Len(hr) >= 0 THEN [q |-> L.q \o H.q, r |-> L.r] ELSE H

StripQuotient(p) == [q |-> StripHigh(p.q), r |-> p.r]

NatDivMod(a, d) == StripQuotient(NatDivAt(a, d, Len(a), 1, << >>))

\* ------------------------------------------------------------------------
\* Decimal values

DZero == [neg |-> FALSE, c |-> << >>, e |-> 0]

\* canonical form of (-1)^neg * c * 10^e
CutLow(neg, h, e, z) == [neg |-> neg, c |-> SubSeq(h, z + 1, Len(h)), e |-> e + z]

CanonHigh(neg, h, e) == IF h = << >> THEN DZero ELSE CutLow(neg, h, e, LowZeros(h))

Canon(neg, c, e) == CanonHigh(neg, StripHigh(c), e)

\* Decimal(str(n)) scaled: n * 10^e for an integer n
D(n, e) == Canon(n < 0, NatOf(IF n < 0 THEN -n ELSE n), e)

\* Context rounding (ROUND_HALF_EVEN to Prec digits) of c * 10^e, where sticky
\* tells that a non-zero part below c was already cut off
RoundUp(h, drop, sticky) ==
    \/ h[drop] > 5
    \/ /\ h[drop] = 5
       /\ \/ sticky
          \/ \E i \in 1..(drop - 1) : h[i] # 0
          \/ h[drop + 1] % 2 = 1

Rounded(kept, up) == IF up THEN NatAdd(kept, << 1 >>) ELSE kept

FixHigh(neg, h, e, sticky, drop) ==
    IF drop <= 0 THEN CanonHigh(neg, h, e)
    ELSE Canon(neg, Rounded(SubSeq(h, drop + 1, Len(h)), RoundUp(h, drop, sticky)),
               e + drop)

FixStripped(neg, h, e, sticky) == FixHigh(neg, h, e, sticky, Len(h) - Prec)

Fix(neg, c, e, sticky) == FixStripped(neg, StripHigh(c), e, sticky)

\* the exact sum, not rounded: [neg, c, e] with possibly more than Prec digits
Differ(xneg, cx, yneg, cy, e, k) ==
    IF k = 0 THEN DZero
    ELSE IF k > 0 THEN [neg |-> xneg, c |-> NatSub(cx, cy), e |-> e]
    ELSE [neg |-> yneg, c |-> NatSub(cy, cx), e |-> e]

Aligned(xneg, cx, yneg, cy, e) ==
    IF xneg = yneg THEN [neg |-> xneg, c |-> NatAdd(cx, cy), e |-> e]
    ELSE Differ(xneg, cx, yneg, cy, e, NatCmp(cx, cy))

AlignAt(x, y, e) ==
    Aligned(x.neg, NatShift(x.c, x.e - e), y.neg, NatShift(y.c, y.e - e), e)

ExactAdd(x, y) == AlignAt(x, y, IF x.e < y.e THEN x.e ELSE y.e)

DNeg(x) == IF x = DZero THEN x ELSE [x EXCEPT !.neg = ~x.neg]

\* Decimal.__add__, __sub__, __mul__, __truediv__
FixExact(s) == Fix(s.neg, s.c, s.e, FALSE)
DAdd(x, y) == FixExact(ExactAdd(x, y))
DSub(x, y) == DAdd(x, DNeg(y))
DMul(x, y) == Fix(x.neg # y.neg, NatMul(x.c, y.c), x.e + y.e, FALSE)
FixQuotient(neg, qr, e) == Fix(neg, qr.q, e, qr.r # << >>)

DivShifted(x, y, shift) ==
    FixQuotient(x.neg # y.neg, NatDivMod(NatShift(x.c, shift), y.c), x.e - y.e - shift)

DDiv(x, y) ==
    IF x = DZero THEN DZero ELSE DivShifted(x, y, Len(y.c) - Len(x.c) + Prec + 1)

\* Decimal comparisons are exact
DSign(x) == IF x.c = << >> THEN 0 ELSE IF x.neg THEN -1 ELSE 1
DCmp(x, y) == DSign(ExactAdd(x, DNeg(y)))
DLe(x, y) == DCmp(x, y) <= 0
DLt(x, y) == DCmp(x, y) < 0

\* ------------------------------------------------------------------------
\* models/trade.py.  Strings that the code takes apart (outcome names, slugs,
\* categories) are sequences of characters; match_time is the integer that
\* int(match_time) reads back from str(timestamp).

Yes == << "Y", "e", "s" >>
No == << "N", "o" >>
Empty == << >>

Trade(id, market, side, size, price, fee_rate_bps, match_time, outcome, market_title, category) ==
    [id |-> id, market |-> market, asset_id |-> "", side |-> side, size |-> size,
     price |-> price, fee_rate_bps |-> fee_rate_bps, status |-> "CONFIRMED",
     match_time |-> match_time, outcome |-> outcome, transaction_hash |-> id,
     trader_side |-> "", market_title |-> market_title, category |-> category]

\* ------------------------------------------------------------------------
\* engine/pnl.py

\* _BPS = Decimal("10000")
BPS == D(10000, 0)

\* seconds of a calendar day: datetime.fromtimestamp(ts).strftime("%Y-%m-%d")
\* is modelled by the day number in the reference time zone
SecondsPerDay == 86400
DayOf(match_time) == match_time \div SecondsPerDay

\* sum(xs, start) over a sequence of Decimals, left to right
RECURSIVE DSum(_, _)
DSum(xs, start) ==
    IF xs = << >> THEN start ELSE DSum(Tail(xs), DAdd(start, Head(xs)))

\* the members of a finite set of integers, largest first
RECURSIVE Descending(_)
Descending(S) ==
    IF S = {} THEN << >>
    ELSE LET m == CHOOSE x \in S : \A y \in S : y <= x
         IN  << m >> \o Descending(S \ {m})

\* gross = trade.price * trade.size; fee = gross * trade.fee_rate_bps / _BPS
Gross(trade) == DMul(trade.price, trade.size)
Fee(gross, fee_rate_bps) == DDiv(DMul(gross, fee_rate_bps), BPS)

\* trade_pnl: gross - fee for a SELL, -(gross + fee) otherwise
Net(side, gross, fee) ==
    IF side = "SELL" THEN DSub(gross, fee) ELSE DNeg(DAdd(gross, fee))
NetOfGross(trade, gross) == Net(trade.side, gross, Fee(gross, trade.fee_rate_bps))
trade_pnl(trade) == NetOfGross(trade, Gross(trade))

\* daily_pnl: buckets[day] += gross - fee for a SELL, -= gross + fee otherwise
Flow(acc, side, gross, fee) ==
    IF side = "SELL" THEN DAdd(acc, DSub(gross, fee)) ELSE DSub(acc, DAdd(gross, fee))
FlowOfGross(acc, trade, gross) == Flow(acc, trade.side, gross, Fee(gross, trade.fee_rate_bps))
\* a loop that adds every fill to every bucket
FlowOfAnyDay(acc, trade, day) == FlowOfGross(acc, trade, Gross(trade))

FlowOf(acc, trade, day) ==
    IF DayOf(trade.match_time) # day THEN acc ELSE FlowOfGross(acc, trade, Gross(trade))

\* the bucket of one day after the loop over the trades
RECURSIVE DayBucket(_, _, _)
DayBucket(ts, day, acc) ==
    IF ts = << >> THEN acc ELSE DayBucket(Tail(ts), day, FlowOf(acc, Head(ts), day))

\* sorted(buckets.items(), reverse=True)
DayRows(ts, days) == [k \in 1..Len(days) |-> << days[k], DayBucket(ts, days[k], DZero) >>]
daily_pnl(ts) == DayRows(ts, Descending({DayOf(ts[i].match_time) : i \in 1..Len(ts)}))

total_pnl(daily) == DSum([k \in 1..Len(daily) |-> daily[k][2]], DZero)

KeyOf(t) == << t.market, t.outcome >>

\* the keys of the buckets dict, in insertion order (first occurrence)
RECURSIVE BucketKeys(_, _)
BucketKeys(ts, seen) ==
    IF ts = << >> THEN seen
    ELSE IF \E k \in 1..Len(seen) : seen[k] = KeyOf(Head(ts))
    THEN BucketKeys(Tail(ts), seen)
    ELSE BucketKeys(Tail(ts), Append(seen, KeyOf(Head(ts))))

\* buckets keyed by the market alone
BucketOfMarket(ts, key) == SelectSeq(ts, LAMBDA t : t.market = key[1])

\* buckets[key]: the fills appended under the key, in input order
Bucket(ts, key) == SelectSeq(ts, LAMBDA t : KeyOf(t) = key)

IsBuy(t) == t.side = "BUY"

\* t.size for t in fills; t.price * t.size for t in fills; trade_pnl(t) for t in fills
Sizes(fills) == [i \in 1..Len(fills) |-> fills[i].size]
Notionals(fills) == [i \in 1..Len(fills) |-> Gross(fills[i])]
Pnls(fills) == [i \in 1..Len(fills) |-> trade_pnl(fills[i])]
MaxOf(S) == CHOOSE x \in S : \A y \in S : y <= x

\* the TradeGroup built from one bucket
\* total_buy_value / total_buy_size if total_buy_size else Decimal("0")
AvgOf(total_buy_value, total_buy_size) ==
    IF total_buy_size # DZero THEN DDiv(total_buy_value, total_buy_size) ELSE DZero

GroupOfTotals(key, fills, buy_fills, total_buy_size, total_buy_value) ==
    [market          |-> key[1],
     market_title    |-> fills[1].market_title,
     category        |-> fills[1].category,
     outcome         |-> key[2],
     last_match_time |-> MaxOf({fills[i].match_time : i \in 1..Len(fills)}),
     avg_buy_price   |-> IF buy_fills # << >>
                         THEN AvgOf(total_buy_value, total_buy_size) ELSE DZero,
     total_bought    |-> IF buy_fills # << >> THEN total_buy_value ELSE DZero,
     pnl             |-> DSum(Pnls(fills), DZero)]

GroupOfBuys(key, fills, buy_fills) ==
    GroupOfTotals(key, fills, buy_fills, DSum(Sizes(buy_fills), DZero),
                  DSum(Notionals(buy_fills), DZero))

\* the totals taken over every fill of the bucket, SELLs included
GroupOfAllFills(key, fills) == GroupOfBuys(key, fills, fills)

GroupOf(key, fills) == GroupOfBuys(key, fills, SelectSeq(fills, IsBuy))

\* sorted(gs, key=lambda g: int(g.last_match_time), reverse=True): stable,
\* groups of equal time keep their order
\* a sort that takes the groups as they come
FirstGroup(gs, top) == 1

\* the index of the first group with the latest time
FirstLatest(gs, top) ==
    CHOOSE j \in 1..Len(gs) :
        /\ gs[j].last_match_time = top
        /\ \A k \in 1..(j - 1) : gs[k].last_match_time # top

Without(xs, i) == SubSeq(xs, 1, i - 1) \o SubSeq(xs, i + 1, Len(xs))

RECURSIVE SortByTimeDesc(_)
SortByTimeDesc(gs) ==
    IF gs = << >> THEN gs
    ELSE LET i == FirstLatest(gs, MaxOf({gs[k].last_match_time : k \in 1..Len(gs)}))
         IN  << gs[i] >> \o SortByTimeDesc(Without(gs, i))

GroupsOf(ts, keys) == [k \in 1..Len(keys) |-> GroupOf(keys[k], Bucket(ts, keys[k]))]

group_trades(ts) == SortByTimeDesc(GroupsOf(ts, BucketKeys(ts, << >>)))

\* ------------------------------------------------------------------------
\* services/account.py

Space == " "
EmDash == "--"
\* outcome="—" of a redemption-only group
Sentinel == << EmDash >>

\* slug.split("-")[0] if slug else ""
category_from_slug(slug) ==
    LET dashes == {i \in 1..Len(slug) : slug[i] = "-"}
    IN  IF dashes = {} THEN slug
        ELSE SubSeq(slug, 1, (CHOOSE i \in dashes : \A j \in dashes : i <= j) - 1)

\* str.lower() on the letters that occur
Lower(ch) ==
    CASE ch = "Y" -> "y" [] ch = "E" -> "e" [] ch = "S" -> "s"
      [] ch = "N" -> "n" [] ch = "O" -> "o" [] OTHER -> ch

\* str.strip().lower()
StripLower(str) ==
    LET ink == {i \in 1..Len(str) : str[i] # Space}
    IN  IF ink = {} THEN << >>
        ELSE LET lo == CHOOSE i \in ink : \A j \in ink : i <= j
                 hi == CHOOSE i \in ink : \A j \in ink : j <= i
             IN  [k \in 1..(hi - lo + 1) |-> Lower(str[lo + k - 1])]

\* A value of an upstream record that is no number: a text Decimal(str(v))
\* does not take, or a key the record lacks
Text(str) == [text |-> str]
Absent == [absent |-> TRUE]

\* Decimal(str(v)) returns a finite number
Parses(v) == "c" \in DOMAIN v

\* Decimal("NaN"): the text Decimal takes without being a number
NaN == Text("NaN")

\* Decimal(str(prices[i])) inside the try of _current_price_for_outcome
PriceOf(v) == IF Parses(v) \/ v = NaN THEN v ELSE DZero

\* _current_price_for_outcome: the price at the index of the first outcome
\* that matches; IndexError, a text json.loads or Decimal refuses and a
\* missing key end in Decimal("0")
current_price_for_outcome(market_info, outcome) ==
    IF "outcomes" \notin DOMAIN market_info THEN DZero
    ELSE
    LET target == StripLower(outcome)
        hits   == {i \in 1..Len(market_info.outcomes) :
                      StripLower(market_info.outcomes[i]) = target}
    IN  IF hits = {} THEN DZero
        ELSE LET i == CHOOSE h \in hits : \A j \in hits : h <= j
             IN  IF i <= Len(market_info.outcomePrices)
                 THEN PriceOf(market_info.outcomePrices[i]) ELSE DZero

\* market_map.get(cid, {}) of {m["conditionId"]: m for m in markets}: the last
\* entry of a market wins, an absent market is the empty dict
NoInfo == [conditionId |-> "", outcomes |-> << >>, outcomePrices |-> << >>]
MarketInfo(gamma, cid) ==
    LET hits == {i \in 1..Len(gamma.markets) : gamma.markets[i].conditionId = cid}
    IN  IF gamma.raises \/ hits = {} THEN NoInfo
        ELSE gamma.markets[CHOOSE i \in hits : \A j \in hits : j <= i]

IsTrade(a) == a.type = "TRADE"
IsRedeem(a) == a.type = "REDEEM"

\* Decimal(str(r["usdcSize"])) for r in market_redeems
Payouts(rs) == [i \in 1..Len(rs) |-> rs[i].usdcSize]

\* the Trade get_trade_groups builds from a TRADE activity
GroupingTrade(a) ==
    [Trade(a.transactionHash, a.conditionId, a.side, a.size, a.price, DZero,
           a.timestamp, a.outcome, a.title, category_from_slug(a.slug))
     EXCEPT !.asset_id = a.asset]

\* the Trades of the TRADE activities, in feed order
GroupingTrades(acts) == [i \in 1..Len(acts) |-> GroupingTrade(acts[i])]

\* redeems[cid]: the REDEEM activities of a market, in feed order
Redeems(acts, cid) == SelectSeq(acts, LAMBDA a : IsRedeem(a) /\ a.conditionId = cid)

\* the keys of the redeems dict, in insertion order
RECURSIVE RedeemKeys(_, _)
RedeemKeys(acts, seen) ==
    IF acts = << >> THEN seen
    ELSE IF ~IsRedeem(Head(acts)) \/ \E k \in 1..Len(seen) : seen[k] = Head(acts).conditionId
    THEN RedeemKeys(Tail(acts), seen)
    ELSE RedeemKeys(Tail(acts), Append(seen, Head(acts).conditionId))

LatestRedeemTime(rs) == MaxOf({rs[i].timestamp : i \in 1..Len(rs)})

\* replace(g, pnl=g.pnl + redeem_total, last_match_time=new_last_time)
\* the redemption time taken whatever the time of the fills
Second(t, u) == u

\* max(int(g.last_match_time), latest_redeem)
Later(t, u) == IF t > u THEN t ELSE u

AugmentBy(g, redeem_total, latest_redeem) ==
    [g EXCEPT !.pnl = DAdd(g.pnl, redeem_total),
              !.last_match_time = Later(g.last_match_time, latest_redeem)]

Augment(g, market_redeems) ==
    IF market_redeems = << >> THEN g
    ELSE AugmentBy(g, DSum(Payouts(market_redeems), DZero),
                   LatestRedeemTime(market_redeems))

\* max(market_redeems, key=lambda a: int(a.get("timestamp", 0))): the first
\* of the latest
FirstAt(rs, top) ==
    rs[CHOOSE i \in 1..Len(rs) :
           /\ rs[i].timestamp = top
           /\ \A j \in 1..(i - 1) : rs[j].timestamp # top]

\* a redemption-only group that counts the latest payout alone
RedeemOnlyOfLatest(cid, market_redeems, latest) ==
    [market          |-> cid,
     market_title    |-> latest.title,
     category        |-> category_from_slug(latest.slug),
     outcome         |-> Sentinel,
     last_match_time |-> latest.timestamp,
     avg_buy_price   |-> DZero,
     total_bought    |-> DZero,
     pnl             |-> latest.usdcSize]

RedeemOnlyOf(cid, market_redeems, latest) ==
    [market          |-> cid,
     market_title    |-> latest.title,
     category        |-> category_from_slug(latest.slug),
     outcome         |-> Sentinel,
     last_match_time |-> latest.timestamp,
     avg_buy_price   |-> DZero,
     total_bought    |-> DZero,
     pnl             |-> DSum(Payouts(market_redeems), DZero)]

\* the group of a market that has REDEEMs and no grouped TRADE
RedeemOnlyGroup(cid, market_redeems) ==
    RedeemOnlyOf(cid, market_redeems,
                 FirstAt(market_redeems, LatestRedeemTime(market_redeems)))

\* the groups of group_trades, each with the REDEEMs of its market
Merged(acts, groups) ==
    [k \in 1..Len(groups) |-> Augment(groups[k], Redeems(acts, groups[k].market))]

\* the markets of the redeems dict that are not in grouped_markets
OnlyRedeemed(acts, groups) ==
    SelectSeq(RedeemKeys(acts, << >>),
              LAMBDA cid : \A k \in 1..Len(groups) : groups[k].market # cid)

RedeemOnlyGroups(acts, only) ==
    [k \in 1..Len(only) |-> RedeemOnlyGroup(only[k], Redeems(acts, only[k]))]

WithRedeems(acts, groups) ==
    SortByTimeDesc(Merged(acts, groups)
                   \o RedeemOnlyGroups(acts, OnlyRedeemed(acts, groups)))

get_trade_groups(acts) ==
    WithRedeems(acts, group_trades(GroupingTrades(SelectSeq(acts, IsTrade))))

\* a REDEEM turned into a SELL at the whole payout as its price
AsTradesAtPayout(a) ==
    IF IsTrade(a)
    THEN << [Trade(a.transactionHash, a.conditionId, a.side, a.size, a.price, DZero,
                   a.timestamp, a.outcome, "", << >>)
             EXCEPT !.asset_id = a.asset] >>
    ELSE IF IsRedeem(a) /\ a.size # DZero
    THEN << Trade(a.transactionHash, a.conditionId, "SELL", a.size,
                  a.usdcSize, DZero, a.timestamp, << >>, "", << >>) >>
    ELSE << >>

\* the Trade _activities_as_trades builds from one activity: none for a REDEEM
\* of size zero (and for any other type)
AsTrades(a) ==
    IF IsTrade(a)
    THEN << [Trade(a.transactionHash, a.conditionId, a.side, a.size, a.price, DZero,
                   a.timestamp, a.outcome, "", << >>)
             EXCEPT !.asset_id = a.asset] >>
    ELSE IF IsRedeem(a) /\ a.size # DZero
    THEN << Trade(a.transactionHash, a.conditionId, "SELL", a.size,
                  DDiv(a.usdcSize, a.size), DZero, a.timestamp, << >>, "", << >>) >>
    ELSE << >>

RECURSIVE activities_as_trades(_)
activities_as_trades(acts) ==
    IF acts = << >> THEN << >>
    ELSE AsTrades(Head(acts)) \o activities_as_trades(Tail(acts))

\* (total_pnl(daily), daily)
Summary(daily) == << total_pnl(daily), daily >>

get_pnl_summary(acts) == Summary(daily_pnl(activities_as_trades(acts)))

\* the dust threshold Decimal("0.01")
Dust == D(1, -2)

\* one entry of open_raw, for the bucket of a key
OpenRawOfTotals(key, meta, buys, total_buy_size, total_sell_size, total_buy_value) ==
    [conditionId   |-> key[1],
     outcome       |-> key[2],
     avg_buy_price |-> AvgOf(total_buy_value, total_buy_size),
     net_shares    |-> DSub(total_buy_size, total_sell_size),
     total_bought  |-> total_buy_value,
     last_buy_time |-> IF buys = << >> THEN 0
                       ELSE MaxOf({buys[i].timestamp : i \in 1..Len(buys)}),
     title         |-> meta.title,
     slug          |-> meta.slug]

\* an entry whose net_shares leaves the SELLs out
OpenRawOfBuysOnly(key, meta, buys, sells) ==
    OpenRawOfTotals(key, meta, buys, DSum(Sizes(buys), DZero), DZero,
                    DSum(Notionals(buys), DZero))

\* an entry whose last_buy_time is taken over the SELLs as well
OpenRawOfAnySide(key, meta, buys, sells) ==
    OpenRawOfTotals(key, meta, buys \o sells, DSum(Sizes(buys), DZero),
                    DSum(Sizes(sells), DZero), DSum(Notionals(buys), DZero))

\* an entry whose total_bought counts the SELLs' notional as well
OpenRawOfAllNotional(key, meta, buys, sells) ==
    OpenRawOfTotals(key, meta, buys, DSum(Sizes(buys), DZero),
                    DSum(Sizes(sells), DZero), DSum(Notionals(buys \o sells), DZero))

OpenRawOfSides(key, meta, buys, sells) ==
    OpenRawOfTotals(key, meta, buys, DSum(Sizes(buys), DZero),
                    DSum(Sizes(sells), DZero), DSum(Notionals(buys), DZero))

OpenRawOfFills(key, meta, fills) ==
    OpenRawOfSides(key, meta, SelectSeq(fills, LAMBDA f : f.side = "BUY"),
                   SelectSeq(fills, LAMBDA f : f.side = "SELL"))

OpenRaw(acts, key) ==
    OpenRawOfFills(key,
        SelectSeq(acts, LAMBDA a : IsTrade(a) /\ a.conditionId = key[1])[1],
        SelectSeq(acts, LAMBDA a : IsTrade(a) /\ << a.conditionId, a.outcome >> = key))

\* open_raw.sort(key=lambda p: int(p["last_buy_time"]), reverse=True): stable
FirstLatestBuy(ps, top) ==
    CHOOSE j \in 1..Len(ps) :
        /\ ps[j].last_buy_time = top
        /\ \A k \in 1..(j - 1) : ps[k].last_buy_time # top

RECURSIVE SortByBuyTimeDesc(_)
SortByBuyTimeDesc(ps) ==
    IF ps = << >> THEN ps
    ELSE LET i == FirstLatestBuy(ps, MaxOf({ps[k].last_buy_time : k \in 1..Len(ps)}))
         IN  << ps[i] >> \o SortByBuyTimeDesc(Without(ps, i))

ActivityKey(a) == [market |-> a.conditionId, outcome |-> a.outcome]
ActivityKeys(acts) == [i \in 1..Len(acts) |-> ActivityKey(acts[i])]

\* the market is in the redeemed set
Redeemed(acts, cid) == \E i \in 1..Len(acts) : IsRedeem(acts[i]) /\ acts[i].conditionId = cid

\* an entry kept on its net_shares alone
HeldThoughRedeemed(acts, p) == DSign(p.net_shares) > 0

\* the entry is kept in open_raw: market not redeemed, net_shares > 0
Held(acts, p) == ~Redeemed(acts, p.conditionId) /\ DSign(p.net_shares) > 0

\* the Position of an open_raw entry at the looked-up price
PositionOf(p, price) ==
    [market        |-> p.conditionId,
     market_title  |-> p.title,
     category      |-> category_from_slug(p.slug),
     outcome       |-> p.outcome,
     avg_buy_price |-> p.avg_buy_price,
     current_price |-> price,
     net_shares    |-> p.net_shares,
     total_bought  |-> p.total_bought,
     last_buy_time |-> p.last_buy_time]

\* a dust test that lets a value of exactly the threshold through
AtOrAboveDust(pos) == ~DLt(DMul(pos.current_price, pos.net_shares), Dust)

\* the dust test: the position is shown
AboveDust(pos) == ~DLe(DMul(pos.current_price, pos.net_shares), Dust)

\* every bucket's entry, in the insertion order of the keys
RawOf(acts, keys) == [k \in 1..Len(keys) |-> OpenRaw(acts, keys[k])]

\* the Position of an entry at the price Gamma gives for its market
Priced(gamma, p) ==
    PositionOf(p, current_price_for_outcome(MarketInfo(gamma, p.conditionId), p.outcome))

PositionsOf(open_raw, gamma) ==
    SelectSeq([k \in 1..Len(open_raw) |-> Priced(gamma, open_raw[k])], AboveDust)

\* open_raw after its sort
open_raw(acts) ==
    SortByBuyTimeDesc(
        SelectSeq(RawOf(acts, BucketKeys(ActivityKeys(SelectSeq(acts, IsTrade)),
                                         << >>)),
                  LAMBDA p : Held(acts, p)))

get_open_positions(acts, gamma) == PositionsOf(open_raw(acts), gamma)

\* replace(t, market_title=title, category=category) with mistaken extras
EnrichedFeeless(t, title, slug) ==
    [t EXCEPT !.market_title = title, !.category = category_from_slug(slug),
              !.fee_rate_bps = DZero]

\* replace(t, market_title=title, category=category)
Enriched(t, title, slug) ==
    [t EXCEPT !.market_title = title, !.category = category_from_slug(slug)]

\* market_map.get(t.market, {}) in _enrich_trades: the last entry of the
\* market; question, title and slug are "" where the dict has none
NoMarket == [conditionId |-> "", question |-> "", title |-> "", slug |-> << >>]
EnrichInfo(gamma, cid) ==
    LET hits == {i \in 1..Len(gamma.markets) : gamma.markets[i].conditionId = cid}
    IN  IF gamma.raises \/ hits = {} THEN NoMarket
        ELSE gamma.markets[CHOOSE i \in hits : \A j \in hits : j <= i]

\* info.get("question") or info.get("title") or ""
TitleOf(info) == IF info.question # "" THEN info.question ELSE info.title

EnrichedBy(t, info) == Enriched(t, TitleOf(info), info.slug)

\* _enrich_trades: with no trade the lookup is not made
enrich_trades(ts, gamma) ==
    [i \in 1..Len(ts) |-> EnrichedBy(ts[i], EnrichInfo(gamma, ts[i].market))]

\* ------------------------------------------------------------------------
\* Calls that end in an exception

\* the fields a call has returned without parsing play no part in its result
Blank(v) == IF Parses(v) THEN v ELSE DZero
Unread(acts) ==
    [i \in 1..Len(acts) |->
        [acts[i] EXCEPT !.size = Blank(@), !.price = Blank(@), !.usdcSize = Blank(@)]]

\* get_trade_groups parses size and price of every TRADE (lines 93-94) and
\* usdcSize of every REDEEM (lines 120, 131)
TradeGroupsRaise(acts) ==
    \E i \in 1..Len(acts) :
        \/ IsTrade(acts[i]) /\ ~(Parses(acts[i].size) /\ Parses(acts[i].price))
        \/ IsRedeem(acts[i]) /\ ~Parses(acts[i].usdcSize)

\* _activities_as_trades parses size and price of every TRADE, size of every
\* REDEEM, and usdcSize of a REDEEM whose size is not zero
AsTradesRaise(acts) ==
    \E i \in 1..Len(acts) :
        \/ IsTrade(acts[i]) /\ ~(Parses(acts[i].size) /\ Parses(acts[i].price))
        \/ /\ IsRedeem(acts[i])
           /\ \/ ~Parses(acts[i].size)
              \/ acts[i].size # DZero /\ ~Parses(acts[i].usdcSize)

\* the loop body of lines 248-259 on the fills of one bucket: every size is
\* parsed, the BUY prices only once net_shares is positive
BucketRaises(fills) ==
    \/ \E i \in 1..Len(fills) : ~Parses(fills[i].size)
    \/ /\ \E i \in 1..Len(fills) : fills[i].side = "BUY" /\ ~Parses(fills[i].price)
       /\ DSign(DSub(DSum(Sizes(SelectSeq(fills, LAMBDA f : f.side = "BUY")), DZero),
                     DSum(Sizes(SelectSeq(fills, LAMBDA f : f.side = "SELL")), DZero))) > 0

\* get_open_positions skips the buckets of redeemed markets unparsed (line 246)
OpenRawRaises(acts) ==
    \E i \in 1..Len(acts) :
        /\ IsTrade(acts[i])
        /\ ~Redeemed(acts, acts[i].conditionId)
        /\ BucketRaises(SelectSeq(acts, LAMBDA a :
               IsTrade(a) /\ a.conditionId = acts[i].conditionId
                          /\ a.outcome = acts[i].outcome))

\* price * p["net_shares"] <= Decimal("0.01") with a NaN price (line 289,
\* outside every try): the comparison signals InvalidOperation
Incomparable(raw, gamma) ==
    \E k \in 1..Len(raw) : Priced(gamma, raw[k]).current_price = NaN

\* ------------------------------------------------------------------------
\* State

VARIABLES
    trades,      \* the list[Trade] handed to the engine functions
    activities,  \* what DataAPI.get_activity() returns: the activity feed
    ret,         \* the call that returned last: [op, arg, out]
    calls,       \* the calls the callers hold: results kept, calls under way
    screen       \* the TradesScreen: its attributes and what its widgets show

vars == << trades, activities, ret, calls, screen >>

NoCall == [op |-> "none", arg |-> << >>, out |-> << >>]

\* the call ended in an exception and returned nothing
Raise(call, arg) == [op |-> "raise", arg |-> arg, out |-> << call >>]

\* ------------------------------------------------------------------------
\* ui/trades.py: the Trades screen

\* _PAGE_SIZE
PageSize == 50

Min(a, b) == IF a <= b THEN a ELSE b

Max(a, b) == IF a >= b THEN a ELSE b

\* a button id: "trade-prev", "trade-next", "filter-all", f"filter-{suffix}"
BtnId(prefix, suffix) == [prefix |-> prefix, suffix |-> suffix]
TradePrev == BtnId("trade-", << "p", "r", "e", "v" >>)
TradeNext == BtnId("trade-", << "n", "e", "x", "t" >>)
FilterAll == BtnId("filter-", << "a", "l", "l" >>)

Other == << "o", "t", "h", "e", "r" >>

\* "other" if cat == "—" else cat
cat_to_btn_suffix(cat) == IF cat = Sentinel THEN Other ELSE cat

\* "—" if suffix == "other" else suffix
btn_suffix_to_cat(suffix) == IF suffix = Other THEN Sentinel ELSE suffix

\* TradesScreen after __init__ and compose: no groups, no filter, page 0,
\* both paging buttons disabled, the label "—" (no page shown), an empty
\* table and the "All" button alone in the filter panel
Composed ==
    [mounted        |-> FALSE,
     all_groups     |-> << >>,
     active_filters |-> {},
     trade_page     |-> 0,
     buttons        |-> << >>,
     active         |-> {},
     rows           |-> << >>,
     label          |-> << >>,
     prev_disabled  |-> TRUE,
     next_disabled  |-> TRUE]

\* Counter(g.category for g in self._all_groups if g.category), sorted by
\* count descending; sorted() is stable and the Counter keeps the
\* categories in the order they first occur
CountOf(groups, cat) == Cardinality({i \in 1..Len(groups) : groups[i].category = cat})

FirstSeenAt(groups, cat) ==
    CHOOSE i \in 1..Len(groups) :
        /\ groups[i].category = cat
        /\ \A j \in 1..(i - 1) : groups[j].category # cat

Ahead(groups, c, d) ==
    \/ CountOf(groups, c) > CountOf(groups, d)
    \/ /\ CountOf(groups, c) = CountOf(groups, d)
       /\ FirstSeenAt(groups, c) < FirstSeenAt(groups, d)

SortedCatsOf(groups, cats) ==
    [k \in 1..Cardinality(cats) |->
        CHOOSE c \in cats :
            Cardinality({d \in cats : Ahead(groups, d, c)}) = k - 1]

sorted_cats(groups) ==
    SortedCatsOf(groups, {groups[i].category : i \in 1..Len(groups)} \ {Empty})

\* _filtered_groups
filtered_groups(s) ==
    IF s.active_filters # {}
    THEN SelectSeq(s.all_groups, LAMBDA g : g.category \in s.active_filters)
    ELSE s.all_groups

\* max(1, (len(groups) + _PAGE_SIZE - 1) // _PAGE_SIZE)
TotalPages(n) == Max(1, (n + PageSize - 1) \div PageSize)

\* _render_table: the page is clamped, the table shows groups[start :
\* start + _PAGE_SIZE] (one row per group, in order), the label shows
\* f"{page + 1} / {total_pages}" and the paging buttons are set
RenderPage(s, groups, total_pages, page) ==
    [s EXCEPT !.trade_page    = page,
              !.rows          = SubSeq(groups, page * PageSize + 1,
                                       Min(Len(groups), page * PageSize + PageSize)),
              !.label         = << page + 1, total_pages >>,
              !.prev_disabled = (page = 0),
              !.next_disabled = (page >= total_pages - 1)]

RenderOf(s, groups, total_pages) ==
    RenderPage(s, groups, total_pages, Min(s.trade_page, total_pages - 1))

RenderGroups(s, groups) == RenderOf(s, groups, TotalPages(Len(groups)))

render_table(s) == RenderGroups(s, filtered_groups(s))

\* _sync_button_states: the class "active" on the buttons of the active filters
sync_button_states(s) ==
    [s EXCEPT !.active = {k \in 1..Len(s.buttons) :
                             btn_suffix_to_cat(s.buttons[k]) \in s.active_filters}]

\* on_mount: the groups are fetched, one button is mounted per category,
\* most frequent first, and the table is rendered
Mounted(s, groups) ==
    render_table([s EXCEPT !.mounted    = TRUE,
                           !.all_groups = groups,
                           !.buttons    = [k \in 1..Len(sorted_cats(groups)) |->
                                              cat_to_btn_suffix(sorted_cats(groups)[k])]])

\* on_button_pressed, "trade-prev"
PrevPressed(s) ==
    IF s.trade_page > 0
    THEN render_table([s EXCEPT !.trade_page = s.trade_page - 1])
    ELSE s

\* on_button_pressed, "trade-next"
NextPressed(s) ==
    IF s.trade_page < TotalPages(Len(filtered_groups(s))) - 1
    THEN render_table([s EXCEPT !.trade_page = s.trade_page + 1])
    ELSE s

\* the filter set after a filter button: "All" clears it, a category
\* button toggles its category
Toggled(filters, cat) ==
    IF cat \in filters THEN filters \ {cat} ELSE filters \cup {cat}

FiltersAfter(filters, btn_id) ==
    IF btn_id = FilterAll THEN {}
    ELSE Toggled(filters, btn_suffix_to_cat(btn_id.suffix))

\* a filter change that leaves the page index to the clamp of the render
FilterChangedKeepingPage(s, filters) ==
    [s EXCEPT !.active_filters = filters]

\* self._trade_page = 0  # reset to first page on filter change
FilterChanged(s, filters) ==
    [s EXCEPT !.active_filters = filters, !.trade_page = 0]

FilterPressed(s, btn_id) ==
    render_table(sync_button_states(
        FilterChanged(s, FiltersAfter(s.active_filters, btn_id))))

on_button_pressed(s, btn_id) ==
    IF btn_id = TradePrev THEN PrevPressed(s)
    ELSE IF btn_id = TradeNext THEN NextPressed(s)
    ELSE IF btn_id.prefix # "filter-" THEN s
    ELSE FilterPressed(s, btn_id)

\* longest Trade list and longest activity feed explored
MaxTrades == 3
MaxActs == 3

SeqsUpTo(S, n) == UNION {[1..k -> S] : k \in 0..n}

\* The Trades the engine is explored on: fills with and without fee, two
\* markets, three calendar days, and a SELL as _activities_as_trades builds
\* it from a REDEEM of usdcSize 1, size 3 (price 1/3 in 28 digits).
TradePool ==
    { Trade("h1", "m1", "BUY",  D(100, 0), D(40, -2), DZero,     100,   Yes, "T1", << "c" >>),
      Trade("h2", "m1", "SELL", D(100, 0), D(60, -2), D(200, 0), 300,   Yes, "T1", << "c" >>),
      Trade("h3", "m1", "BUY",  D(1, 0),   D(20, -2), DZero,     200,   No,  "",   Empty),
      Trade("h4", "m1", "BUY",  D(2, 0),   D(40, -2), DZero,     86500, No,  "",   Empty),
      Trade("h5", "m2", "SELL", D(3, 0),   DDiv(D(1, 0), D(3, 0)), DZero, 300, Empty, "", Empty),
      Trade("h6", "m2", "BUY",  D(200, 0), D(50, -2), DZero,     200,   Yes, "",   Empty),
      Trade("h7", "m2", "BUY",  D(5, 0),   D(5, -1),  D(200, 0), 86500, Yes, "T2", << "d" >>),
      Trade("h8", "m2", "SELL", D(50, 0),  D(79, -2), DZero,     86500, Yes, "T2", << "d" >>) }

\* ------------------------------------------------------------------------
\* The engine functions applied to a Trade list (specification SpecEngine)

InitEngine ==
    /\ trades \in SeqsUpTo(TradePool, MaxTrades)
    /\ activities = << >>
    /\ ret = NoCall
    /\ calls = << >>
    /\ screen = Composed

DailyPnl ==
    /\ ret.op = "none"
    /\ ret' = [op |-> "daily_pnl", arg |-> trades, out |-> daily_pnl(trades)]
    /\ UNCHANGED << trades, activities, calls, screen >>

\* total_pnl(daily), as get_pnl_summary calls it on what daily_pnl returned
TotalPnl ==
    /\ ret.op = "daily_pnl"
    /\ ret' = [op |-> "total_pnl", arg |-> ret.out, out |-> total_pnl(ret.out)]
    /\ UNCHANGED << trades, activities, calls, screen >>

TradePnl ==
    /\ ret.op = "none"
    /\ \E i \in 1..Len(trades) :
           ret' = [op |-> "trade_pnl", arg |-> trades[i], out |-> trade_pnl(trades[i])]
    /\ UNCHANGED << trades, activities, calls, screen >>

GroupTrades ==
    /\ ret.op = "none"
    /\ ret' = [op |-> "group_trades", arg |-> trades, out |-> group_trades(trades)]
    /\ UNCHANGED << trades, activities, calls, screen >>

NextEngine == DailyPnl \/ TotalPnl \/ TradePnl \/ GroupTrades

SpecEngine == InitEngine /\ [][NextEngine]_vars

\* The engine on fills that share a key (specification SpecOrder): a BUY and
\* two SELLs of (m1, Yes), one at a price of 28 digits, and a fill of
\* another market.
OrderPool ==
    { Trade("k1", "m1", "BUY",  D(100, 0), D(40, -2), DZero, 100, Yes, "T1", << "c" >>),
      Trade("k2", "m1", "SELL", D(50, 0),  D(79, -2), DZero, 300, Yes, "T1", << "c" >>),
      Trade("k3", "m1", "SELL", D(3, 0),   DDiv(D(1, 0), D(3, 0)), DZero, 200, Yes, "T1", << "c" >>),
      Trade("k4", "m2", "BUY",  D(5, 0),   D(5, -1),  DZero, 400, No,  "T2", << "d" >>) }

InitOrder ==
    /\ trades \in SeqsUpTo(OrderPool, MaxTrades)
    /\ activities = << >>
    /\ ret = NoCall
    /\ calls = << >>
    /\ screen = Composed

SpecOrder == InitOrder /\ [][NextEngine]_vars

\* ------------------------------------------------------------------------
\* Exact (unrounded) arithmetic, used only to state the properties

ExactMul(x, y) == [neg |-> x.neg # y.neg, c |-> NatMul(x.c, y.c), e |-> x.e + y.e]

RECURSIVE ExactSum(_)
ExactSum(xs) ==
    IF xs = << >> THEN DZero ELSE ExactAdd(Head(xs), ExactSum(Tail(xs)))

Value(x) == Canon(x.neg, x.c, x.e)
Abs(x) == [x EXCEPT !.neg = FALSE]

\* one unit in the last of the Prec places a result of the size of x is rounded to
Ulp(x) == [neg |-> FALSE, c |-> << 1 >>, e |-> x.e + Len(x.c) - Prec]

\* q is the quotient num / den rounded to Prec significant digits: it has at
\* most Prec digits and |q * den - num| <= (ulp(q) / 2) * |den|
IsRoundedQuotient(q, num, den) ==
    /\ Len(q.c) <= Prec
    /\ DLe(ExactMul(D(2, 0), Abs(ExactAdd(ExactMul(q, den), DNeg(num)))),
           Abs(ExactMul(Ulp(q), den)))
    /\ num # DZero => q # DZero

KeysOf(ts) == {KeyOf(ts[i]) : i \in 1..Len(ts)}
Members(ts, key) == SelectSeq(ts, LAMBDA t : KeyOf(t) = key)
Count(xs, x) == Cardinality({i \in 1..Len(xs) : xs[i] = x})
GroupKey(g) == << g.market, g.outcome >>

\* C1: total_pnl(daily_pnl(trades)) equals the sum of trade_pnl(t) over the
\* trades, however they fall on calendar days and whatever their order.
\* The sum is read both ways: the exact sum, or sum(trade_pnl(t) for t in trades)
\* as Python adds Decimals in input order.
C1_TotalIsSumOfTradePnl ==
    ret.op = "total_pnl" =>
        \/ ret.out = Value(ExactSum(Pnls(trades)))
        \/ ret.out = DSum(Pnls(trades), DZero)

\* every trade of ts is filed under exactly one key of keys, its own
FiledOnce(ts, keys) ==
    /\ \A k \in 1..Len(keys) :
           /\ Bucket(ts, keys[k]) # << >>
           /\ \A j \in 1..Len(Bucket(ts, keys[k])) :
                  /\ KeyOf(Bucket(ts, keys[k])[j]) = keys[k]
                  /\ Count(Bucket(ts, keys[k]), Bucket(ts, keys[k])[j])
                         = Count(ts, Bucket(ts, keys[k])[j])
    /\ \A i \in 1..Len(ts) :
           Cardinality({k \in 1..Len(keys) :
                           \E j \in 1..Len(Bucket(ts, keys[k])) :
                               Bucket(ts, keys[k])[j] = ts[i]}) = 1

\* the groups gs are one per key of ts, each made of the trades of its key
OnePerKey(ts, gs) ==
    /\ {GroupKey(gs[k]) : k \in 1..Len(gs)} = KeysOf(ts)
    /\ Len(gs) = Cardinality(KeysOf(ts))
    /\ \A k \in 1..Len(gs) :
           /\ gs[k].pnl = DSum(Pnls(Members(ts, GroupKey(gs[k]))), DZero)
           /\ \E i \in 1..Len(ts) :
                  KeyOf(ts[i]) = GroupKey(gs[k]) /\ ts[i].match_time = gs[k].last_match_time
           /\ \A i \in 1..Len(ts) :
                  KeyOf(ts[i]) = GroupKey(gs[k]) => ts[i].match_time <= gs[k].last_match_time

\* C2: group_trades partitions its input: exactly one group per (market,
\* outcome) key that occurs, none for any other key, and every input trade is
\* filed in exactly one bucket, the one of its own key, and counts in the group
\* of that key only.
C2_GroupsPartitionInput ==
    ret.op = "group_trades" =>
        /\ OnePerKey(ret.arg, ret.out)
        /\ Len(BucketKeys(ret.arg, << >>)) = Cardinality(KeysOf(ret.arg))
        /\ FiledOnce(ret.arg, BucketKeys(ret.arg, << >>))

\* a list in which two trades share a key and a third has another key of the
\* same market has been grouped
C2_Witness ==
    /\ ret.op = "group_trades"
    /\ Len(ret.arg) = 3
    /\ Len(ret.out) = 2
    /\ ret.out[1].market = ret.out[2].market

Buys(ts, g) == SelectSeq(Members(ts, GroupKey(g)), IsBuy)
BuySize(ts, g) == DSum(Sizes(Buys(ts, g)), DZero)

\* what C3 says of one group g of the trades ts, but for the average price
GroupSums(ts, g) ==
    /\ g.total_bought = DSum(Notionals(Buys(ts, g)), DZero)
    /\ Buys(ts, g) = << >> => g.avg_buy_price = DZero /\ g.total_bought = DZero
    /\ g.pnl = DSum(Pnls(Members(ts, GroupKey(g))), DZero)

\* the worked example: BUY 100 at 0.40, SELL 100 at 0.60 with 200 bps
ExampleFills ==
    << Trade("h1", "m1", "BUY",  D(100, 0), D(40, -2), DZero,     100, Yes, "T1", << "c" >>),
       Trade("h2", "m1", "SELL", D(100, 0), D(60, -2), D(200, 0), 300, Yes, "T1", << "c" >>) >>

ExampleHolds ==
    ret.arg = ExampleFills =>
        /\ Len(ret.out) = 1
        /\ ret.out[1].avg_buy_price = D(40, -2)
        /\ ret.out[1].total_bought = D(40, 0)
        /\ ret.out[1].pnl = D(1880, -2)

\* C3 as stated: avg_buy_price times the summed BUY size equals total_bought
\* (as the Decimal product, or exactly)
C3_AvgTimesSizeIsTotal ==
    ret.op = "group_trades" =>
        /\ \A k \in 1..Len(ret.out) :
               /\ GroupSums(ret.arg, ret.out[k])
               /\ \/ DMul(ret.out[k].avg_buy_price, BuySize(ret.arg, ret.out[k]))
                         = ret.out[k].total_bought
                  \/ Value(ExactMul(ret.out[k].avg_buy_price, BuySize(ret.arg, ret.out[k])))
                         = ret.out[k].total_bought
        /\ ExampleHolds

\* C3 (amended): total_bought is the BUY notional only, pnl the sum of
\* trade_pnl over all members, avg_buy_price is 0 without a BUY and otherwise
\* total_bought / summed BUY size rounded to Prec significant digits: it has at
\* most Prec digits and avg * size is within half a unit of its last place
\* (times size) of total_bought.  The worked example gives 0.40, 40.00, 18.80.
C3_AvgIsRoundedQuotient ==
    ret.op = "group_trades" =>
        /\ \A k \in 1..Len(ret.out) :
               /\ GroupSums(ret.arg, ret.out[k])
               /\ IsRoundedQuotient(ret.out[k].avg_buy_price, ret.out[k].total_bought,
                                    BuySize(ret.arg, ret.out[k]))
        /\ ExampleHolds

\* a group whose average price is not an exact quotient has been built
C3_Witness ==
    /\ ret.op = "group_trades"
    /\ \E k \in 1..Len(ret.out) :
           /\ ret.out[k].total_bought # DZero
           /\ DMul(ret.out[k].avg_buy_price, BuySize(ret.arg, ret.out[k]))
                  # ret.out[k].total_bought

\* ------------------------------------------------------------------------
\* AccountService on an activity feed (specification Spec)

Activity(type, cid, outcome, side, size, price, usdcSize, timestamp, title, slug, hash) ==
    [type |-> type, conditionId |-> cid, asset |-> "", side |-> side, size |-> size,
     price |-> price, usdcSize |-> usdcSize, timestamp |-> timestamp, outcome |-> outcome,
     title |-> title, slug |-> slug, transactionHash |-> hash]

NbaSlug == << "n", "b", "a", "-", "x" >>
PolSlug == << "p", "o", "l" >>

\* The activity records the feed is made of: fills of both sides in two
\* outcomes of market m1 (100 bought, 95 sold: 5 shares left), a fill in m2, and
\* REDEEMs with an exact payout per share (50/100), an inexact one (1/3) and
\* size zero.
ActivityPool ==
    { Activity("TRADE",  "m1", Yes,   "BUY",  D(100, 0), D(40, -2), D(40, 0),  100,   "T1", NbaSlug, "x1"),
      Activity("TRADE",  "m1", Yes,   "SELL", D(95, 0),  D(60, -2), D(57, 0),  300,   "T1", NbaSlug, "x2"),
      Activity("TRADE",  "m1", No,    "BUY",  D(1, 0),   D(20, -2), D(2, -1),  86500, "T1", NbaSlug, "x3"),
      Activity("TRADE",  "m1", No,    "BUY",  D(2, 0),   D(40, -2), D(8, -1),  200,   "T1", NbaSlug, "x4"),
      Activity("REDEEM", "m1", Empty, "",     D(100, 0), DZero,     D(50, 0),  400,   "T1", NbaSlug, "x5"),
      Activity("REDEEM", "m2", Empty, "",     D(3, 0),   DZero,     D(1, 0),   500,   "T2", PolSlug, "x6"),
      Activity("REDEEM", "m2", Empty, "",     DZero,     DZero,     D(2, 0),   150,   "T2", PolSlug, "x7"),
      Activity("TRADE",  "m2", Yes,   "BUY",  D(5, 0),   D(5, -1),  D(25, -1), 300,   "T2", PolSlug, "x8") }

Market(cid, outcomes, outcomePrices) ==
    [conditionId |-> cid, outcomes |-> outcomes, outcomePrices |-> outcomePrices]

\* What GammaAPI.get_markets_by_condition_ids does: it raises, or returns
\* market dicts (outcome names in any case and padding; a market may be absent)
GammaPool ==
    { [raises |-> TRUE, markets |-> << >>],
      [raises |-> FALSE,
       markets |-> << Market("m1", << Yes, No >>, << D(1, -3), D(1, -2) >>),
                      Market("m2", << Yes, No >>, << D(5, -1), D(5, -1) >>) >>],
      [raises |-> FALSE,
       markets |-> << Market("m1", << << Space, "Y", "E", "S", Space >>, << "n", "o" >> >>,
                                   << D(1, -2), D(5, -1) >>) >>] }

Init ==
    /\ trades = << >>
    /\ activities = << >>
    /\ ret = NoCall
    /\ calls = << >>
    /\ screen = Composed

\* the upstream feed gains a record; the value of the previous call is dropped
Record ==
    /\ Len(activities) < MaxActs
    /\ \E a \in ActivityPool : activities' = Append(activities, a)
    /\ ret' = NoCall
    /\ UNCHANGED << trades, calls, screen >>

GetTradeGroups ==
    /\ ret.op = "none"
    /\ ret' = IF TradeGroupsRaise(activities)
               THEN Raise("get_trade_groups", activities)
               ELSE [op |-> "get_trade_groups", arg |-> activities,
                     out |-> get_trade_groups(Unread(activities))]
    /\ UNCHANGED << trades, activities, calls, screen >>

ActivitiesAsTrades ==
    /\ ret.op = "none"
    /\ ret' = IF AsTradesRaise(activities)
               THEN Raise("_activities_as_trades", activities)
               ELSE [op |-> "_activities_as_trades", arg |-> activities,
                     out |-> activities_as_trades(Unread(activities))]
    /\ UNCHANGED << trades, activities, calls, screen >>

GetPnlSummary ==
    /\ ret.op = "none"
    /\ ret' = IF AsTradesRaise(activities)
               THEN Raise("get_pnl_summary", activities)
               ELSE [op |-> "get_pnl_summary", arg |-> activities,
                     out |-> get_pnl_summary(Unread(activities))]
    /\ UNCHANGED << trades, activities, calls, screen >>

\* lines 273-302 on open_raw: the lookup, then the dust filter
OpenPositionsFrom(arg, raw) ==
    IF Incomparable(raw, arg.gamma) THEN Raise("get_open_positions", arg)
    ELSE [op |-> "get_open_positions", arg |-> arg, out |-> PositionsOf(raw, arg.gamma)]

OpenPositionsCall(arg) ==
    IF OpenRawRaises(arg.activities) THEN Raise("get_open_positions", arg)
    ELSE OpenPositionsFrom(arg, open_raw(Unread(arg.activities)))

GetOpenPositions ==
    /\ ret.op = "none"
    /\ \E gamma \in GammaPool :
           ret' = OpenPositionsCall([activities |-> activities, gamma |-> gamma])
    /\ UNCHANGED << trades, activities, calls, screen >>

Next ==
    \/ Record
    \/ GetTradeGroups
    \/ ActivitiesAsTrades
    \/ GetPnlSummary
    \/ GetOpenPositions

Spec == Init /\ [][Next]_vars

\* ------------------------------------------------------------------------
\* Every core operation called again and again on the same inputs
\* (specification SpecAgain)

AgainTrades ==
    { Trade("h2", "m1", "SELL", D(100, 0), D(60, -2), D(200, 0), 300,   Yes, "T1", << "c" >>),
      Trade("h7", "m2", "BUY",  D(5, 0),   D(5, -1),  D(200, 0), 86500, Yes, "",   Empty) }

AgainActs ==
    { Activity("TRADE",  "m1", Yes,   "BUY", D(100, 0), D(40, -2), D(40, 0), 100, "T1", NbaSlug, "x1"),
      Activity("REDEEM", "m2", Empty, "",    D(3, 0),   DZero,     D(1, 0),  500, "T2", PolSlug, "x6") }

TitledMarket(cid, question, title, slug) ==
    [conditionId |-> cid, question |-> question, title |-> title, slug |-> slug]

\* What the Gamma lookup of _enrich_trades answers: it raises, or returns
\* market dicts with a question, or with a title only and no slug
TitlePool ==
    { [raises |-> TRUE,  markets |-> << >>],
      [raises |-> FALSE, markets |-> << TitledMarket("m1", "Q1", "t1", NbaSlug) >>],
      [raises |-> FALSE, markets |-> << TitledMarket("m1", "", "t1", << >>),
                                        TitledMarket("m2", "Q2", "", PolSlug) >>] }

InitAgain ==
    /\ \/ trades \in SeqsUpTo(AgainTrades, MaxTrades) /\ activities = << >>
       \/ trades = << >> /\ activities \in SeqsUpTo(AgainActs, MaxActs)
    /\ ret = NoCall
    /\ calls = << >>
    /\ screen = Composed

EnrichTrades ==
    /\ ret.op = "none"
    /\ \E gamma \in TitlePool :
           ret' = [op |-> "_enrich_trades", arg |-> [trades |-> trades, gamma |-> gamma],
                   out |-> enrich_trades(trades, gamma)]
    /\ UNCHANGED << trades, activities, calls, screen >>

\* the caller keeps what the call returned, and is free to call again
Return ==
    /\ ret.op # "none"
    /\ calls' = << ret >>
    /\ ret' = NoCall
    /\ UNCHANGED << trades, activities, screen >>

NextAgain ==
    \/ DailyPnl
    \/ TotalPnl
    \/ TradePnl
    \/ GroupTrades
    \/ EnrichTrades
    \/ GetTradeGroups
    \/ GetPnlSummary
    \/ GetOpenPositions
    \/ Return

SpecAgain == InitAgain /\ [][NextAgain]_vars

\* ------------------------------------------------------------------------
\* HomeScreen.on_mount: five calls of one AccountService in five threads
\* (specification SpecThreads). The upstream answers are fixed: the feed is
\* activities, the Gamma answer HomeGamma, the balance HomeBalance.

HomeCalls ==
    << "get_wallet_address", "get_balance", "get_pnl_summary",
       "get_open_positions", "get_trade_groups" >>

wallet_address == "0xw"
HomeBalance == D(1500000, 0)
HomeGamma ==
    [raises |-> FALSE, markets |-> << Market("m1", << Yes, No >>, << D(5, -1), D(5, -1) >>) >>]

InitThreads ==
    /\ trades = << >>
    /\ activities \in SeqsUpTo(AgainActs, MaxActs)
    /\ ret = NoCall
    /\ calls = << >>
    /\ screen = Composed

\* asyncio.gather(asyncio.to_thread(...), ...): the five calls start, each
\* with locals of its own
Mount ==
    /\ calls = << >>
    /\ screen = Composed
    /\ ret.op = "none"
    /\ calls' = [i \in 1..Len(HomeCalls) |->
                    [op |-> HomeCalls[i], pc |-> "start",
                     acts |-> << >>, raw |-> << >>, out |-> << >>]]
    /\ UNCHANGED << trades, activities, ret, screen >>

\* the locals a call works on, were they one buffer shared by the calls
Shared(cs, i) == cs[Len(cs)]

\* the locals a call works on: its own
Mine(cs, i) == cs[i]

\* get_wallet_address: return self.wallet_address
Answer(i) ==
    /\ calls[i].op = "get_wallet_address"
    /\ calls[i].pc = "start"
    /\ calls' = [calls EXCEPT ![i].pc = "done", ![i].out = wallet_address]
    /\ UNCHANGED << trades, activities, ret, screen >>

\* activities = self._data.get_activity(), raw = self._api.get_balance_allowance()
Fetch(i) ==
    /\ calls[i].op # "get_wallet_address"
    /\ calls[i].pc = "start"
    /\ calls' = [calls EXCEPT ![i].pc = "fetched",
                              ![i].acts = IF calls[i].op = "get_balance" THEN << >>
                                          ELSE activities,
                              ![i].raw = IF calls[i].op = "get_balance" THEN HomeBalance
                                         ELSE << >>]
    /\ UNCHANGED << trades, activities, ret, screen >>

\* get_open_positions up to the sort of open_raw (lines 231-271)
Scan(i) ==
    /\ calls[i].op = "get_open_positions"
    /\ calls[i].pc = "fetched"
    /\ calls' = [calls EXCEPT ![i].pc = "scanned", ![i].raw = open_raw(Mine(calls, i).acts)]
    /\ UNCHANGED << trades, activities, ret, screen >>

\* what a call returns from its locals
ResultOf(c) ==
    CASE c.op = "get_balance"        -> DDiv(c.raw, D(1000000, 0))
      [] c.op = "get_pnl_summary"    -> get_pnl_summary(c.acts)
      [] c.op = "get_trade_groups"   -> get_trade_groups(c.acts)
      [] c.op = "get_open_positions" -> PositionsOf(c.raw, HomeGamma)

Finish(i) ==
    /\ \/ calls[i].op \in {"get_balance", "get_pnl_summary", "get_trade_groups"}
          /\ calls[i].pc = "fetched"
       \/ calls[i].op = "get_open_positions" /\ calls[i].pc = "scanned"
    /\ calls' = [calls EXCEPT ![i].pc = "done", ![i].out = ResultOf(Mine(calls, i))]
    /\ UNCHANGED << trades, activities, ret, screen >>

\* the await of on_mount: the five results, in the order of the calls
Gathered ==
    /\ calls # << >>
    /\ \A i \in 1..Len(calls) : calls[i].pc = "done"
    /\ ret' = [op |-> "on_mount", arg |-> activities,
               out |-> [i \in 1..Len(calls) |-> calls[i].out]]
    /\ calls' = << >>
    /\ UNCHANGED << trades, activities, screen >>

NextThreads ==
    \/ Mount
    \/ \E i \in 1..Len(calls) : Answer(i)
    \/ \E i \in 1..Len(calls) : Fetch(i)
    \/ \E i \in 1..Len(calls) : Scan(i)
    \/ \E i \in 1..Len(calls) : Finish(i)
    \/ Gathered

SpecThreads == InitThreads /\ [][NextThreads]_vars

\* ------------------------------------------------------------------------
\* AccountService on upstream answers of any shape (specification SpecUpstream)

\* Records as the Data API may hand them over: a well-formed BUY, a SELL
\* without price, a BUY whose size is no number, a REDEEM of the market of
\* these fills, and REDEEMs of size zero with a text for usdcSize and
\* without size.
UpstreamPool ==
    { Activity("TRADE",  "m1", Yes,   "BUY",  D(100, 0),   D(40, -2), D(40, 0), 100, "T1", NbaSlug, "u1"),
      Activity("TRADE",  "m1", Yes,   "SELL", D(50, 0),    Absent,    D(30, 0), 300, "T1", NbaSlug, "u2"),
      Activity("TRADE",  "m1", No,    "BUY",  Text("abc"), D(40, -2), D(8, -1), 200, "T1", NbaSlug, "u3"),
      Activity("REDEEM", "m1", Empty, "",     D(100, 0),   DZero,     D(50, 0), 400, "T1", NbaSlug, "u4"),
      Activity("REDEEM", "m2", Empty, "",     DZero,       DZero,     Text("abc"), 500, "T2", PolSlug, "u5"),
      Activity("REDEEM", "m2", Empty, "",     Absent,      DZero,     D(1, 0),  150, "T2", PolSlug, "u6") }

\* a market dict whose "outcomes" string json.loads refuses
Unlisted(cid, outcomePrices) ==
    [conditionId |-> cid, outcomes_text |-> "[Yes", outcomePrices |-> outcomePrices]

\* The answers of the Gamma lookup: it raises; no entry for the market; the
\* listed price; a price array too short; a price that is a text; an
\* unreadable outcome array; no outcome of the name; prices NaN.
UpstreamGammaPool ==
    { [raises |-> TRUE,  markets |-> << >>],
      [raises |-> FALSE, markets |-> << Market("m2", << Yes, No >>, << D(5, -1), D(5, -1) >>) >>],
      [raises |-> FALSE, markets |-> << Market("m1", << Yes, No >>, << D(5, -1), D(5, -1) >>) >>],
      [raises |-> FALSE, markets |-> << Market("m1", << No, Yes >>, << D(5, -1) >>) >>],
      [raises |-> FALSE, markets |-> << Market("m1", << Yes, No >>, << Text("abc"), D(5, -1) >>) >>],
      [raises |-> FALSE, markets |-> << Unlisted("m1", << D(5, -1), D(5, -1) >>) >>],
      [raises |-> FALSE, markets |-> << Market("m1", << << "U", "p" >>, << "D", "o", "w", "n" >> >>,
                                                    << D(5, -1), D(5, -1) >>) >>],
      [raises |-> FALSE, markets |-> << Market("m1", << Yes, No >>, << NaN, NaN >>) >>] }

RecordUpstream ==
    /\ Len(activities) < MaxActs
    /\ \E a \in UpstreamPool : activities' = Append(activities, a)
    /\ ret' = NoCall
    /\ UNCHANGED << trades, calls, screen >>

GetOpenPositionsUpstream ==
    /\ ret.op = "none"
    /\ \E gamma \in UpstreamGammaPool :
           ret' = OpenPositionsCall([activities |-> activities, gamma |-> gamma])
    /\ UNCHANGED << trades, activities, calls, screen >>

NextUpstream ==
    \/ RecordUpstream
    \/ GetTradeGroups
    \/ ActivitiesAsTrades
    \/ GetPnlSummary
    \/ GetOpenPositionsUpstream

SpecUpstream == Init /\ [][NextUpstream]_vars

\* ------------------------------------------------------------------------
\* Properties of AccountService (specification Spec)

\* the activities _activities_as_trades has a Trade for
Emitting(acts) ==
    SelectSeq(acts, LAMBDA a : IsTrade(a) \/ (IsRedeem(a) /\ a.size # DZero))

\* the Trade t of a TRADE activity a, and of a REDEEM activity but for its price
EmittedAs(a, t) ==
    /\ t.fee_rate_bps = DZero
    /\ t.market = a.conditionId
    /\ t.match_time = a.timestamp
    /\ IsTrade(a) => t.side = a.side /\ t.size = a.size /\ t.price = a.price
    /\ IsRedeem(a) => t.side = "SELL" /\ t.size = a.size

\* one Trade per emitting activity, in input order
EmittedInOrder(acts, out) ==
    /\ Len(out) = Len(Emitting(acts))
    /\ \A k \in 1..Len(out) : EmittedAs(Emitting(acts)[k], out[k])

\* usdcSize=50, size=100 gives price 0.50
HalfPayout(a, t) ==
    (IsRedeem(a) /\ a.usdcSize = D(50, 0) /\ a.size = D(100, 0)) => t.price = D(5, -1)

\* C4 as stated: the Trade of a REDEEM has price * size equal to usdcSize (as
\* the Decimal product, or exactly)
C4_RedeemPriceTimesSizeIsPayout ==
    ret.op = "_activities_as_trades" =>
        /\ EmittedInOrder(ret.arg, ret.out)
        /\ \A k \in 1..Len(ret.out) :
               /\ HalfPayout(Emitting(ret.arg)[k], ret.out[k])
               /\ IsRedeem(Emitting(ret.arg)[k]) =>
                      \/ DMul(ret.out[k].price, ret.out[k].size)
                             = Emitting(ret.arg)[k].usdcSize
                      \/ Value(ExactMul(ret.out[k].price, ret.out[k].size))
                             = Emitting(ret.arg)[k].usdcSize

\* C4 (amended): _activities_as_trades emits, in input order, one Trade per
\* TRADE activity (same side, size, price) and one SELL Trade per REDEEM of
\* non-zero size, with the record's size and with price = usdcSize / size
\* rounded to Prec significant digits (0.50 for usdcSize 50, size 100), and
\* nothing for a REDEEM of size zero; every emitted Trade has fee_rate_bps 0.
C4_RedeemPriceIsRoundedQuotient ==
    ret.op = "_activities_as_trades" =>
        /\ EmittedInOrder(ret.arg, ret.out)
        /\ \A k \in 1..Len(ret.out) :
               /\ HalfPayout(Emitting(ret.arg)[k], ret.out[k])
               /\ IsRedeem(Emitting(ret.arg)[k]) =>
                      IsRoundedQuotient(ret.out[k].price, Emitting(ret.arg)[k].usdcSize,
                                        ret.out[k].size)

\* a feed with a REDEEM whose payout per share is not a 28-digit decimal and a
\* REDEEM of size zero has been converted
C4_Witness ==
    /\ ret.op = "_activities_as_trades"
    /\ \E i \in 1..Len(ret.arg) : IsRedeem(ret.arg[i]) /\ ret.arg[i].size = DZero
    /\ \E k \in 1..Len(ret.out) :
           /\ IsRedeem(Emitting(ret.arg)[k])
           /\ DMul(ret.out[k].price, ret.out[k].size) # Emitting(ret.arg)[k].usdcSize

\* the groups of the TRADE activities alone: what group_trades returns
FillGroups(acts) == group_trades(GroupingTrades(SelectSeq(acts, IsTrade)))

RedeemsOf(acts, cid) ==
    SelectSeq(acts, LAMBDA a : a.type = "REDEEM" /\ a.conditionId = cid)

Payout(rs) == DSum(Payouts(rs), DZero)

\* r is the fill-only group g with the REDEEMs rs of its market counted in
WithPayout(r, g, rs) ==
    /\ r.market = g.market
    /\ r.outcome = g.outcome
    /\ r.market_title = g.market_title
    /\ r.category = g.category
    /\ r.avg_buy_price = g.avg_buy_price
    /\ r.total_bought = g.total_bought
    /\ r.pnl = DAdd(g.pnl, Payout(rs))
    /\ r.last_match_time
           = MaxOf({g.last_match_time} \cup {rs[i].timestamp : i \in 1..Len(rs)})
    /\ rs = << >> => r = g

\* each of the fill-only groups is in out once, with the payout of its market
EachWithPayout(acts, out, groups) ==
    \A j \in 1..Len(groups) :
        /\ Cardinality({k \in 1..Len(out) : GroupKey(out[k]) = GroupKey(groups[j])}) = 1
        /\ \E k \in 1..Len(out) :
               WithPayout(out[k], groups[j], RedeemsOf(acts, groups[j].market))

\* C5: redemption is keyed by market only.  Every group built from TRADE
\* activities is returned once, with pnl = fill-only pnl + the sum of usdcSize
\* over all REDEEMs of its market (whatever its outcome), last_match_time = the
\* later of its fill time and the latest such REDEEM, and every other field
\* unchanged; it is returned unchanged when its market has no REDEEM.
C5_RedeemsKeyedByMarket ==
    ret.op = "get_trade_groups" => EachWithPayout(ret.arg, ret.out, FillGroups(ret.arg))

\* groups of two outcomes of a redeemed market have been returned, one of them
\* with a fill later than the REDEEM
C5_Witness ==
    /\ ret.op = "get_trade_groups"
    /\ \E j, k \in 1..Len(ret.out) :
           /\ ret.out[j].market = ret.out[k].market
           /\ ret.out[j].outcome # ret.out[k].outcome
           /\ RedeemsOf(ret.arg, ret.out[j].market) # << >>
           /\ \A i \in 1..Len(ret.arg) :
                  IsRedeem(ret.arg[i]) => ret.arg[i].timestamp < ret.out[j].last_match_time

HasTrade(acts, cid) == \E i \in 1..Len(acts) : IsTrade(acts[i]) /\ acts[i].conditionId = cid
HasRedeem(acts, cid) == \E i \in 1..Len(acts) : IsRedeem(acts[i]) /\ acts[i].conditionId = cid
MarketsOf(acts) == {acts[i].conditionId : i \in 1..Len(acts)}

\* g is the redemption-only group of the REDEEMs rs
IsRedeemOnly(g, rs) ==
    /\ g.outcome = Sentinel
    /\ g.avg_buy_price = DZero
    /\ g.total_bought = DZero
    /\ g.pnl = Payout(rs)
    /\ g.last_match_time = MaxOf({rs[i].timestamp : i \in 1..Len(rs)})

\* C6: a market with a REDEEM and no TRADE activity yields exactly one group,
\* with the sentinel outcome, avg_buy_price 0, total_bought 0, pnl = the sum of
\* usdcSize over its REDEEMs and last_match_time = its latest REDEEM; a market
\* with a TRADE-derived group gets no group with the sentinel outcome.
C6_RedeemOnlyGroup ==
    ret.op = "get_trade_groups" =>
        \A cid \in MarketsOf(ret.arg) :
            /\ (HasRedeem(ret.arg, cid) /\ ~HasTrade(ret.arg, cid)) =>
                   /\ Cardinality({k \in 1..Len(ret.out) : ret.out[k].market = cid}) = 1
                   /\ \E k \in 1..Len(ret.out) :
                          /\ ret.out[k].market = cid
                          /\ IsRedeemOnly(ret.out[k], RedeemsOf(ret.arg, cid))
            /\ HasTrade(ret.arg, cid) =>
                   \A k \in 1..Len(ret.out) :
                       ret.out[k].market = cid => ret.out[k].outcome # Sentinel

\* a market with two REDEEMs and no TRADE has been grouped, next to a market
\* with a TRADE
C6_Witness ==
    /\ ret.op = "get_trade_groups"
    /\ \E cid \in MarketsOf(ret.arg) :
           /\ ~HasTrade(ret.arg, cid)
           /\ Len(RedeemsOf(ret.arg, cid)) = 2
    /\ \E cid \in MarketsOf(ret.arg) : HasTrade(ret.arg, cid)
    /\ Len(ret.out) = 2

GroupPnls(gs) == [k \in 1..Len(gs) |-> gs[k].pnl]

\* C7: the total of get_pnl_summary equals the sum of pnl over the groups
\* get_trade_groups returns on the same activities (the sum taken exactly, or
\* as Python adds the Decimals in the order of the groups).
C7_SummaryMatchesGroups ==
    ret.op = "get_pnl_summary" =>
        \/ ret.out[1] = Value(ExactSum(GroupPnls(get_trade_groups(ret.arg))))
        \/ ret.out[1] = DSum(GroupPnls(get_trade_groups(ret.arg)), DZero)

\* the (market, outcome) keys of the TRADE activities, and the fills of a key
TradeKeys(acts) ==
    {<< acts[i].conditionId, acts[i].outcome >> : i \in {j \in 1..Len(acts) : IsTrade(acts[j])}}
FillsOf(acts, key) ==
    SelectSeq(acts, LAMBDA a : a.type = "TRADE" /\ << a.conditionId, a.outcome >> = key)
SizesOf(fills, side) == Sizes(SelectSeq(fills, LAMBDA f : f.side = side))

\* sum of BUY sizes - sum of SELL sizes
NetShares(fills) ==
    DSub(DSum(SizesOf(fills, "BUY"), DZero), DSum(SizesOf(fills, "SELL"), DZero))

\* the price the Gamma answer holds for a key
PriceAt(gamma, key) == current_price_for_outcome(MarketInfo(gamma, key[1]), key[2])

\* current_price * net_shares of a key, as the Decimal product
ValueAt(acts, gamma, key) == DMul(PriceAt(gamma, key), NetShares(FillsOf(acts, key)))

\* a candidate position: market not redeemed, net_shares > 0
Candidate(acts, key) ==
    ~HasRedeem(acts, key[1]) /\ DSign(NetShares(FillsOf(acts, key))) > 0

PositionKey(pos) == << pos.market, pos.outcome >>
Shown(out, key) == \E k \in 1..Len(out) : PositionKey(out[k]) = key

\* C8: the dust filter.  A candidate position is left out when current_price *
\* net_shares <= 0.01 and returned when it is > 0.01, so every returned
\* Position has current_price * net_shares > 0.01; net_shares 5 at price 0.001
\* is left out, net_shares 5 at price 0.01 is returned.
C8_DustFilter ==
    ret.op = "get_open_positions" =>
        /\ \A k \in 1..Len(ret.out) :
               /\ DLt(Dust, DMul(ret.out[k].current_price, ret.out[k].net_shares))
               /\ DLt(Dust, ExactMul(ret.out[k].current_price, ret.out[k].net_shares))
        /\ \A key \in TradeKeys(ret.arg.activities) :
               Candidate(ret.arg.activities, key) =>
                   /\ Shown(ret.out, key)
                          <=> DLt(Dust, ValueAt(ret.arg.activities, ret.arg.gamma, key))
                   /\ NetShares(FillsOf(ret.arg.activities, key)) = D(5, 0) =>
                          /\ PriceAt(ret.arg.gamma, key) = D(1, -3) => ~Shown(ret.out, key)
                          /\ PriceAt(ret.arg.gamma, key) = D(1, -2) => Shown(ret.out, key)

\* a candidate worth exactly 0.01 has been left out, and one worth more is
\* returned
C8_Witness ==
    /\ ret.op = "get_open_positions"
    /\ Len(ret.out) = 1
    /\ \E key \in TradeKeys(ret.arg.activities) :
           /\ Candidate(ret.arg.activities, key)
           /\ ValueAt(ret.arg.activities, ret.arg.gamma, key) = Dust
           /\ ~Shown(ret.out, key)

\* C9: no returned Position belongs to a market with a REDEEM activity in the
\* feed, whatever shares are left of its outcomes and wherever the REDEEM
\* stands in the feed.
C9_NoPositionInRedeemedMarket ==
    ret.op = "get_open_positions" =>
        \A k \in 1..Len(ret.out) : ~HasRedeem(ret.arg.activities, ret.out[k].market)

\* a feed in which a REDEEM precedes a BUY of its market, whose shares are
\* worth more than the dust threshold, has been evaluated
C9_Witness ==
    /\ ret.op = "get_open_positions"
    /\ \E i, j \in 1..Len(ret.arg.activities) :
           /\ i < j
           /\ IsRedeem(ret.arg.activities[i])
           /\ IsTrade(ret.arg.activities[j])
           /\ ret.arg.activities[i].conditionId = ret.arg.activities[j].conditionId
    /\ \E key \in TradeKeys(ret.arg.activities) :
           /\ HasRedeem(ret.arg.activities, key[1])
           /\ DSign(NetShares(FillsOf(ret.arg.activities, key))) > 0
           /\ DLt(Dust, ValueAt(ret.arg.activities, ret.arg.gamma, key))

\* the keys get_open_positions has a Position for
OpenKeys(acts, gamma) ==
    {key \in TradeKeys(acts) : Candidate(acts, key) /\ DLt(Dust, ValueAt(acts, gamma, key))}

\* the Positions out are one per key of keys, with the net_shares of the key
OnePerOpenKey(acts, gamma, out, keys) ==
    /\ {PositionKey(out[k]) : k \in 1..Len(out)} = keys
    /\ Len(out) = Cardinality(keys)
    /\ \A k \in 1..Len(out) :
           /\ out[k].net_shares = NetShares(FillsOf(acts, PositionKey(out[k])))
           /\ out[k].current_price = PriceAt(gamma, PositionKey(out[k]))
           /\ DSign(out[k].net_shares) > 0

\* C10: get_open_positions returns exactly one Position for each (market,
\* outcome) key of TRADE activities whose market is not redeemed, whose
\* net_shares = sum of BUY sizes - sum of SELL sizes is > 0 and whose
\* current_price * net_shares is > 0.01, and none for any other key; each
\* Position carries that net_shares, which is > 0.
C10_OnePositionPerOpenKey ==
    ret.op = "get_open_positions" =>
        OnePerOpenKey(ret.arg.activities, ret.arg.gamma, ret.out,
                      OpenKeys(ret.arg.activities, ret.arg.gamma))

\* two keys are returned, one of them with a SELL among its fills
C10_Witness ==
    /\ ret.op = "get_open_positions"
    /\ Len(ret.out) = 2
    /\ \E k \in 1..Len(ret.out) :
           \E i \in 1..Len(ret.arg.activities) :
               /\ IsTrade(ret.arg.activities[i])
               /\ ret.arg.activities[i].side = "SELL"
               /\ << ret.arg.activities[i].conditionId, ret.arg.activities[i].outcome >>
                      = PositionKey(ret.out[k])

\* the times of a list of groups, in list order
TimesOf(gs) == [k \in 1..Len(gs) |-> gs[k].last_match_time]

NonIncreasing(ts) == \A i \in 1..(Len(ts) - 1) : ts[i] >= ts[i + 1]

\* the groups of the trades ts as group_trades has them before its sort
Unsorted(ts) == GroupsOf(ts, BucketKeys(ts, << >>))

\* groups with times [100, 300, 200] come out as [300, 200, 100]
SortExample(before, after) ==
    TimesOf(before) = << 100, 300, 200 >> => TimesOf(after) = << 300, 200, 100 >>

\* what C11 says of group_trades on the trades ts
SortedGroups(ts) ==
    /\ NonIncreasing(TimesOf(group_trades(ts)))
    /\ SortExample(Unsorted(ts), group_trades(ts))

\* C11: the lists returned by group_trades and by get_trade_groups (after the
\* REDEEMs are merged in and the redemption-only groups added) are sorted by
\* last_match_time as an integer, non-increasing; groups with times
\* [100, 300, 200] come out as [300, 200, 100].
C11_GroupsNewestFirst ==
    ret.op = "get_trade_groups" =>
        /\ NonIncreasing(TimesOf(ret.out))
        /\ SortedGroups(GroupingTrades(SelectSeq(ret.arg, IsTrade)))

\* groups built in the order of times [100, 300, 200] have been returned
C11_Witness ==
    /\ ret.op = "get_trade_groups"
    /\ TimesOf(Unsorted(GroupingTrades(SelectSeq(ret.arg, IsTrade)))) = << 100, 300, 200 >>
    /\ TimesOf(ret.out) = << 300, 200, 100 >>

\* the timestamps of the BUY records of the feed under the key of position p
BuyTimes(acts, p) ==
    {acts[i].timestamp : i \in {j \in 1..Len(acts) :
        /\ IsTrade(acts[j]) /\ acts[j].side = "BUY"
        /\ acts[j].conditionId = p.market /\ acts[j].outcome = p.outcome}}

\* a SELL of the key of p later than every BUY of the key
SoldLater(acts, p) ==
    \E i \in 1..Len(acts) :
        /\ IsTrade(acts[i]) /\ acts[i].side = "SELL"
        /\ acts[i].conditionId = p.market /\ acts[i].outcome = p.outcome
        /\ acts[i].timestamp > p.last_buy_time

BuyTimed(acts, out) ==
    \A k \in 1..Len(out) :
        /\ BuyTimes(acts, out[k]) # {}
        /\ out[k].last_buy_time = MaxOf(BuyTimes(acts, out[k]))

\* C12: every Position get_open_positions returns carries as last_buy_time
\* the greatest timestamp among the BUY records of its key alone (a later SELL
\* of the key does not change it), and the returned list, dust removed, is
\* sorted by last_buy_time as an integer, non-increasing.
C12_NewestBuyFirst ==
    ret.op = "get_open_positions" =>
        /\ BuyTimed(ret.arg.activities, ret.out)
        /\ NonIncreasing([k \in 1..Len(ret.out) |-> ret.out[k].last_buy_time])

\* two Positions returned, the one bought first sold later than the other
\* was bought, and returned last
C12_Witness ==
    /\ ret.op = "get_open_positions"
    /\ Len(ret.out) = 2
    /\ ret.out[1].last_buy_time > ret.out[2].last_buy_time
    /\ SoldLater(ret.arg.activities, ret.out[2])
    /\ \E i \in 1..Len(ret.arg.activities) :
           /\ ret.arg.activities[i].side = "SELL"
           /\ ret.arg.activities[i].timestamp > ret.out[1].last_buy_time

\* the call of the name returned normally
Returned(call) == ret.op = call
\* the call of the name ended in an exception
Raised(call) == ret.op = "raise" /\ ret.out = << call >>

\* the lookup of the price of outcome under market cid failed, in one of the
\* ways C13 lists
LookupFailed(gamma, cid, outcome) ==
    \/ gamma.raises
    \/ \A i \in 1..Len(gamma.markets) : gamma.markets[i].conditionId # cid
    \/ \E i \in 1..Len(gamma.markets) :
          /\ gamma.markets[i].conditionId = cid
          /\ \/ "outcomes" \notin DOMAIN gamma.markets[i]
             \/ \A k \in 1..Len(gamma.markets[i].outcomes) :
                    StripLower(gamma.markets[i].outcomes[k]) # StripLower(outcome)
             \/ \E k \in 1..Len(gamma.markets[i].outcomes) :
                    /\ StripLower(gamma.markets[i].outcomes[k]) = StripLower(outcome)
                    /\ \/ k > Len(gamma.markets[i].outcomePrices)
                       \/ ~Parses(gamma.markets[i].outcomePrices[k])

NoneFailed(gamma, out) ==
    \A k \in 1..Len(out) : ~LookupFailed(gamma, out[k].market, out[k].outcome)

\* C13: a failed price lookup (the lookup raises, has no entry for the
\* market, has malformed outcome or price arrays, or no outcome of the
\* position's name) is absorbed: get_open_positions raises only over the
\* records of the feed, never over the Gamma answer, and the positions whose
\* lookup failed are priced 0 and so are not among those returned.
C13_LookupFailuresAbsorbed ==
    /\ Raised("get_open_positions") => OpenRawRaises(ret.arg.activities)
    /\ Returned("get_open_positions") => NoneFailed(ret.arg.gamma, ret.out)

\* a record of the feed lacks one of size, price, usdcSize or holds no number
\* in it
Malformed(acts) ==
    \E i \in 1..Len(acts) :
        ~(Parses(acts[i].size) /\ Parses(acts[i].price) /\ Parses(acts[i].usdcSize))

\* C14: a malformed record is a hard failure of the whole call: when
\* get_trade_groups, get_pnl_summary or get_open_positions returns a result,
\* no record of the feed lacks a numeric field or holds a non-number in it.
C14_MalformedRecordFails ==
    /\ Returned("get_trade_groups") => ~Malformed(ret.arg)
    /\ Returned("get_pnl_summary") => ~Malformed(ret.arg)
    /\ Returned("get_open_positions") => ~Malformed(ret.arg.activities)

\* the orders the list xs can be handed over in
Orders(xs) ==
    {[i \in 1..Len(xs) |-> xs[f[i]]] :
        f \in {g \in [1..Len(xs) -> 1..Len(xs)] : \A i, j \in 1..Len(xs) : g[i] = g[j] => i = j}}

\* what C15 compares of a group
Figures(g) ==
    << g.market, g.outcome, g.last_match_time, g.avg_buy_price, g.total_bought, g.pnl >>
FiguresOf(gs) == {Figures(gs[k]) : k \in 1..Len(gs)}

\* C15: group_trades is order-insensitive: the groups it returns for any
\* other order of the same trades have the same market, outcome,
\* last_match_time, avg_buy_price, total_bought and pnl.
C15_GroupsWhateverTheOrder ==
    ret.op = "group_trades" =>
        \A ts \in Orders(ret.arg) : FiguresOf(group_trades(ts)) = FiguresOf(ret.out)

\* the copy differs from the source Trade in market_title and category alone
Relabelled(t, u) == [u EXCEPT !.market_title = t.market_title, !.category = t.category] = t

RelabelledAll(ts, us) ==
    /\ Len(us) = Len(ts)
    /\ \A i \in 1..Len(ts) : Relabelled(ts[i], us[i])

\* the call that returns now was made before on the same inputs and answers
CalledAgain(held, now) ==
    /\ held # << >>
    /\ now.op # "none"
    /\ held[1].op = now.op
    /\ held[1].arg = now.arg

Alone(op) ==
    CASE op = "get_wallet_address" -> wallet_address
      [] op = "get_balance"        -> DDiv(HomeBalance, D(1000000, 0))
      [] op = "get_pnl_summary"    -> get_pnl_summary(activities)
      [] op = "get_trade_groups"   -> get_trade_groups(activities)
      [] op = "get_open_positions" -> get_open_positions(activities, HomeGamma)

\* the locals of a call are what its own steps so far have made them
OwnLocals(c) ==
    /\ c.pc = "start" => c.acts = << >> /\ c.raw = << >>
    /\ c.pc # "done" => c.out = << >>
    /\ c.pc # "start" /\ c.op \notin {"get_wallet_address", "get_balance"} => c.acts = activities
    /\ c.pc = "fetched" /\ c.op # "get_balance" => c.raw = << >>

\* C17: AccountService holds no shared mutable state: with the five calls of
\* HomeScreen.on_mount running in threads against fixed upstream answers,
\* every call that is done in any interleaving has the result it has when run
\* alone, and at every moment the locals of a call are those of its own steps
\* (no call sees a partial result of another).
C17_ThreadsDoNotInterfere ==
    /\ \A i \in 1..Len(calls) :
           /\ OwnLocals(calls[i])
           /\ calls[i].pc = "done" => calls[i].out = Alone(calls[i].op)
    /\ ret.op = "on_mount" =>
           \A i \in 1..Len(HomeCalls) : ret.out[i] = Alone(HomeCalls[i])

\* get_trade_groups is done with a group to show while get_open_positions,
\* holding an entry of open_raw, and get_pnl_summary are under way
C17_Witness ==
    /\ calls # << >>
    /\ calls[5].pc = "done" /\ calls[5].out # << >>
    /\ calls[4].pc = "scanned" /\ calls[4].raw # << >>
    /\ calls[3].pc = "fetched"

\* the signed cash flow of a fill as C18 words it
CashFlow(price, size, fee, sell) ==
    IF sell THEN DSub(DMul(price, size), fee) ELSE DNeg(DAdd(DMul(price, size), fee))
CashFlowOf(t) ==
    CashFlow(t.price, t.size, DDiv(DMul(DMul(t.price, t.size), t.fee_rate_bps), D(10000, 0)),
             t.side = "SELL")

\* the cash flows of the trades of one date, in input order
FlowsOn(ts, day) ==
    LET on == SelectSeq(ts, LAMBDA t : DayOf(t.match_time) = day)
    IN  [k \in 1..Len(on) |-> CashFlowOf(on[k])]

DatedRows(ts, rows) ==
    /\ {rows[k][1] : k \in 1..Len(rows)} = {DayOf(ts[i].match_time) : i \in 1..Len(ts)}
    /\ \A k \in 1..(Len(rows) - 1) : rows[k][1] > rows[k + 1][1]
    /\ \A k \in 1..Len(rows) : rows[k][2] = DSum(FlowsOn(ts, rows[k][1]), DZero)

\* C18: daily_pnl returns one (date, amount) pair for each calendar date among
\* the match_time values and no other; the amount is the sum, added in input
\* order, of the signed cash flow (SELL: price*size - fee, BUY: -(price*size +
\* fee), fee = price*size*fee_rate_bps/10000) of exactly the trades of that
\* date; and the pairs are strictly descending by date.
C18_OneRowPerDate ==
    ret.op = "daily_pnl" => DatedRows(ret.arg, ret.out)

\* two dates, one of them with a BUY and a SELL that pays a fee
C18_Witness ==
    /\ ret.op = "daily_pnl"
    /\ Len(ret.out) = 2
    /\ \E i, j \in 1..Len(ret.arg) :
          /\ DayOf(ret.arg[i].match_time) = DayOf(ret.arg[j].match_time)
          /\ ret.arg[i].side = "BUY"
          /\ ret.arg[j].side = "SELL" /\ ret.arg[j].fee_rate_bps # DZero

\* the groups of gs under the key of position p
GroupsAt(gs, p) ==
    SelectSeq(gs, LAMBDA g : g.market = p.market /\ g.outcome = p.outcome)

SameFigures(at, p) ==
    /\ Len(at) = 1
    /\ at[1].avg_buy_price = p.avg_buy_price
    /\ at[1].total_bought = p.total_bought

SameBuyFigures(out, gs) ==
    \A k \in 1..Len(out) : SameFigures(GroupsAt(gs, out[k]), out[k])

\* C19: every Position get_open_positions returns has the avg_buy_price and
\* the total_bought of the TradeGroup that get_trade_groups returns for the
\* same (market, outcome) on the same activities.
C19_PositionMatchesGroup ==
    ret.op = "get_open_positions" =>
        SameBuyFigures(ret.out, get_trade_groups(ret.arg.activities))

\* a Position of a key that was bought and partly sold
C19_Witness ==
    /\ ret.op = "get_open_positions"
    /\ \E k \in 1..Len(ret.out) :
          /\ ret.out[k].total_bought # DZero
          /\ \E i \in 1..Len(ret.arg.activities) :
                /\ ret.arg.activities[i].side = "SELL"
                /\ ret.arg.activities[i].conditionId = ret.out[k].market
                /\ ret.arg.activities[i].outcome = ret.out[k].outcome

\* ------------------------------------------------------------------------
\* The Trades screen under button presses (specification SpecScreen)

\* most groups of one category in what get_trade_groups hands the screen
MaxPerCategory == 51

Nba == << "n", "b", "a" >>
Pol == << "p", "o", "l" >>

\* the k-th of n TradeGroups, newest first as get_trade_groups sorts them
ScreenGroup(k, n, cat) ==
    [market          |-> k,
     market_title    |-> "T",
     category        |-> cat,
     outcome         |-> Yes,
     last_match_time |-> n - k + 1,
     avg_buy_price   |-> DZero,
     total_bought    |-> DZero,
     pnl             |-> DZero]

\* a groups of no category, then b of "nba", then c of "pol"
GroupList(a, b, c) ==
    [k \in 1..(a + b + c) |->
        ScreenGroup(k, a + b + c,
                    IF k <= a THEN Empty ELSE IF k <= a + b THEN Nba ELSE Pol)]

PerCategory == {0, 1, PageSize, MaxPerCategory}

GroupLists ==
    {GroupList(a, b, c) : a \in {0, 1}, b \in PerCategory, c \in PerCategory}

InitScreen ==
    /\ trades = << >>
    /\ activities = << >>
    /\ ret = NoCall
    /\ calls = << >>
    /\ screen = Composed

\* on_mount with the groups the service returns
TradesMount ==
    /\ ~screen.mounted
    /\ \E groups \in GroupLists : screen' = Mounted(screen, groups)
    /\ ret' = [op |-> "on_mount", arg |-> << >>, out |-> << >>]
    /\ UNCHANGED << trades, activities, calls >>

\* on_button_pressed with the button's id.  The handler's own conditions
\* decide what a press does, whether the button was shown disabled or not.
Press(btn_id) ==
    /\ screen' = on_button_pressed(screen, btn_id)
    /\ ret' = [op |-> "on_button_pressed", arg |-> btn_id, out |-> << >>]
    /\ UNCHANGED << trades, activities, calls >>

PressPrev == screen.mounted /\ Press(TradePrev)

PressNext == screen.mounted /\ Press(TradeNext)

PressAll == screen.mounted /\ Press(FilterAll)

PressFilter ==
    /\ screen.mounted
    /\ \E k \in 1..Len(screen.buttons) : Press(BtnId("filter-", screen.buttons[k]))

NextScreen == TradesMount \/ PressPrev \/ PressNext \/ PressAll \/ PressFilter

SpecScreen == InitScreen /\ [][NextScreen]_vars

\* the number of groups passing the active filters (every group when no
\* filter is active) and the pages they fill
Passing(s) ==
    Cardinality({i \in 1..Len(s.all_groups) :
                    \/ s.active_filters = {}
                    \/ s.all_groups[i].category \in s.active_filters})

Ceiling(n, size) == CHOOSE k \in 0..n : k * size >= n /\ (k - 1) * size < n

PagesOf(n) == Max(1, Ceiling(n, PageSize))

PagedWithin(s, total_pages, filter_pressed) ==
    /\ 0 <= s.trade_page
    /\ s.trade_page <= total_pages - 1
    /\ filter_pressed => s.trade_page = 0
    /\ s.mounted => /\ s.prev_disabled = (s.trade_page = 0)
                    /\ s.next_disabled = (s.trade_page = total_pages - 1)

FilterPress(call) == call.op = "on_button_pressed" /\ call.arg.prefix = "filter-"

\* C20: after any sequence of prev, next, category and "All" presses the
\* page index lies in 0 .. total_pages - 1, where total_pages is
\* max(1, ceil(groups passing the active filters / 50)); a press of a filter
\* button leaves the page index 0; and once the table has been rendered the
\* prev button is disabled exactly on page 0 and the next button exactly on
\* the last page.
C20_PageWithinPages ==
    PagedWithin(screen, PagesOf(Passing(screen)), FilterPress(ret))

\* the last of several pages of a filtered list, reached with the next button
C20_Witness ==
    /\ ret.op = "on_button_pressed"
    /\ ret.arg = TradeNext
    /\ screen.active_filters # {}
    /\ screen.trade_page >= 1
    /\ screen.trade_page = PagesOf(Passing(screen)) - 1
    /\ screen.next_disabled
    /\ ~screen.prev_disabled

\* ------------------------------------------------------------------------
\* The filter panel on named categories (specification SpecFilter)

\* most groups in what get_trade_groups hands the screen
MaxGroups == 3

\* the categories _category_from_slug yields for the slugs "", "nba-...",
\* "other-..." and "—-..."
NamedCategories == {Empty, Nba, Other, Sentinel}

\* the button ids on_mount gives the categories of a list are distinct
\* (a panel holds one widget of an id)
DistinctIds(cs) ==
    \A i, j \in DOMAIN cs :
        cat_to_btn_suffix(cs[i]) = cat_to_btn_suffix(cs[j]) => cs[i] = cs[j]

NamedListOf(cs) == [k \in DOMAIN cs |-> ScreenGroup(k, Len(cs), cs[k])]

NamedLists ==
    {NamedListOf(cs) : cs \in {c \in SeqsUpTo(NamedCategories, MaxGroups) : DistinctIds(c)}}

\* on_mount with the groups the service returns
TradesMountNamed ==
    /\ ~screen.mounted
    /\ \E groups \in NamedLists : screen' = Mounted(screen, groups)
    /\ ret' = [op |-> "on_mount", arg |-> << >>, out |-> << >>]
    /\ UNCHANGED << trades, activities, calls >>

NextFilter == TradesMountNamed \/ PressPrev \/ PressNext \/ PressAll \/ PressFilter

SpecFilter == InitScreen /\ [][NextFilter]_vars

\* the categories on_mount mounts a button for, and the id of each button
ButtonCats(s) == {s.all_groups[i].category : i \in 1..Len(s.all_groups)} \ {Empty}

ButtonOf(c) == BtnId("filter-", cat_to_btn_suffix(c))

RoundTrips(c) == btn_suffix_to_cat(cat_to_btn_suffix(c)) = c

\* the set with c put in if it was out and taken out if it was in
Flipped(filters, c) == (filters \ {c}) \cup ({c} \ filters)

\* the rows of the groups whose category is in the set (one page holds
\* them all); with no filter active every group passes
ShowsFiltered(s) ==
    s.rows = SelectSeq(s.all_groups,
                       LAMBDA g : s.active_filters = {} \/ g.category \in s.active_filters)

ButtonToggles(s, call, after, c) ==
    /\ RoundTrips(c)
    /\ (call.op = "on_button_pressed" /\ call.arg = ButtonOf(c)) =>
          /\ after.active_filters = Flipped(s.active_filters, c)
          /\ ShowsFiltered(after)

\* C21: for every category c that has a filter button,
\* _btn_suffix_to_cat(_cat_to_btn_suffix(c)) = c, a press of the button of
\* c toggles exactly c in the active filter set, and the table then shows
\* exactly the groups whose category is in that set.
C21_FilterButtonsRoundTrip ==
    [][\A c \in ButtonCats(screen') : ButtonToggles(screen, ret', screen', c)]_vars
====
